---- MODULE Spec2Model ----
(***************************************************************************)
(* Rootly -> Glean connector: the paginated fetcher                        *)
(* (data_fetchers/base.py), the document mappers (document_mappers/*.py)   *)
(* and the sync coordinator (processors/sync_coordinator.py).              *)
(*                                                                         *)
(* FetchSpec      one call of RootlyDataFetcher.fetch_paginated_data       *)
(* FairFetchSpec  the same call, with the progress a sequential loop has   *)
(* Spec           one call of SyncCoordinator.sync_all_data_types          *)
(* BootSpec       SyncCoordinator.__init__ on the loaded configuration     *)
(* EnrichSpec     one call of enrich_incidents_with_details                *)
(* AppSpec        one run of the entry-point script app.py                 *)
(* ConvertSpec    one record through a mapper (view_url, timestamps)       *)
(* RenderSpec     the shift lines of a schedule document                   *)
(* SectionSpec    the monitoring sections of an alert document             *)
(* OffsetSpec     fetch_paginated_data against a source serving by offset  *)
(* OncallSpec     the enhancement loop of fetch_schedules                  *)
(* LookupSpec     any one of the calls that issue source requests          *)
(* TypeSpec       one enabled type, followed from its page requests        *)
(* OrderSpec      a whole run, for the order of its steps                  *)
(***************************************************************************)
EXTENDS Integers, Sequences, FiniteSets, TLC

VARIABLES
    \* ---- fetch_paginated_data (data_fetchers/base.py) ----
    f_pc,            \* "idle" | "loop" | "break" | "done"
    max_items,       \* argument: None, or an integer
    items_per_page,  \* argument
    all_items,       \* local list of records accumulated so far
    page,            \* local page counter
    requests,        \* history: the page requests issued, <<[number, size]>>
    served,          \* history: number of records the source has served
    emptyAt,         \* the source: number of its first empty page
    failedPage,      \* history: number of the page whose request failed, 0 if none
    total,           \* environment: size of the collection of a source that serves by offset
    fetched_result,  \* the value returned by the call
    \* ---- sync_all_data_types (processors/sync_coordinator.py) ----
    s_pc,            \* "new" | "loop" | "running" | "returned" | "crashed" | "idle"
    enabled,         \* configuration: entity type -> enabled flag
    enhanced,        \* configuration: incidents.enhanced_data has a flag set
    cur,             \* position of the for loop in data_type_configs (1-based)
    pipeline,        \* outcome of the fetcher call of the type being processed
    results,         \* dict: entity type -> result entry (plus "summary" at the end)
    all_documents,   \* list of documents collected from the types
    unique_documents,\* the returned, deduplicated list
    duplicates_removed,
    raw_of,          \* history: entity type -> records the source served for it
    docs_of,         \* history: entity type -> documents its mapper produced
    fetch_calls,     \* history: entity type -> number of fetcher calls
    map_calls,       \* history: entity type -> number of mapper calls
    budget,          \* raw records the source may still hand to this run
    has_severities,  \* the /severities request of the incidents fetcher answered
                     \* at least one definition (severity_lookup is non-empty)
    \* ---- enrich_incidents_with_details (data_fetchers/enhanced_incidents.py) ----
    e_pc,            \* "idle" | "start" | "loop" | "done" | "raised"
    e_incidents,     \* argument: the fetched incidents
    include_events,  \* argument
    include_action_items, \* argument
    severity_lookup, \* local: ids of the severity definitions fetched, {} on failure
    e_idx,           \* position of the for loop in incidents (1-based)
    enriched_incidents, \* local list, returned at the end
    e_calls,         \* history: lookups issued, as <<position, piece>>
    e_failed,        \* history: lookups that failed, as <<position, piece>>
    e_log,           \* history: the requests issued, in the order of their issue
    \* ---- the process entry point (app.py) ----
    a_pc,            \* "idle" | "load" | "validate" | "client" | "declare" | "fetch"
                     \* | "convert" | "index" | "exited"
    config_state,    \* the configuration the module-level code gets
    since,           \* sys.argv[1]: "absent", "empty", "valid" or "invalid"
    processing,      \* config.processing, as the script reads it: max_incidents,
                     \* max_pages, items_per_page
    page_num,        \* loop variable of the fetch loop
    all_incidents_data, \* number of incidents accumulated by the fetch loop
    docs_to_index,   \* number of documents the conversion loop produced
    a_calls,         \* history: calls made to the source API and the index API
    a_errors,        \* history: failures met, by kind
    a_exit,          \* exit code of the process, NoExit while it runs
    a_finished,      \* "Script finished successfully." was logged
    \* ---- one record through a mapper (document_mappers/*.py, app.to_doc) ----
    c_pc,            \* "called" | "returned" | "idle"
    c_path,          \* "mapper": <Type>DocumentMapper.convert, "to_doc": app.to_doc
    c_record,        \* the record: entity type, id, url, created_at, updated_at
    c_doc,           \* the document returned, NoDocument for None
    c_python,        \* the interpreter that runs the mapper: "3.11" or "3.12"
    \* ---- _add_oncall_data (document_mappers/schedule_mapper.py) ----
    r_pc,            \* "called" | "returned" | "raised" | "idle"
    all_shifts,      \* schedule['all_shifts']
    user_lookup,     \* schedule['user_lookup']: user id -> user record
    shift_lines,     \* the lines appended under "## All Shifts"
    \* ---- _add_monitoring_rules_content (document_mappers/alert_mapper.py) ----
    m_pc,            \* "called" | "returned" | "idle"
    monitoring_context, \* alert['monitoring_context']: section -> list of entries
    section_lines,   \* section -> number of entry lines appended to the body
    \* ---- fetch_schedules: the enhancement loop (data_fetchers/schedules.py) ----
    o_pc,            \* "idle" | "loop" | "done"
    o_schedules,     \* the schedules fetched: 1 for a schedule with an id, 0 for one without
    o_idx,           \* position of the for loop in schedules (1-based)
    o_out,           \* what the loop left on each schedule it has passed
    o_log            \* history: the requests issued, as <<position, endpoint>>, in order

fetchVars == <<f_pc, max_items, items_per_page, all_items, page, requests,
               served, emptyAt, failedPage, total, fetched_result>>
syncVars  == <<s_pc, enabled, enhanced, cur, pipeline, results, all_documents,
               unique_documents, duplicates_removed, raw_of, docs_of,
               fetch_calls, map_calls, budget, has_severities>>
enrichVars == <<e_pc, e_incidents, include_events, include_action_items,
                severity_lookup, e_idx, enriched_incidents, e_calls, e_failed,
                e_log>>
appVars == <<a_pc, config_state, since, processing, page_num, all_incidents_data,
             docs_to_index, a_calls, a_errors, a_exit, a_finished>>
convertVars == <<c_pc, c_path, c_record, c_doc, c_python>>
renderVars == <<r_pc, all_shifts, user_lookup, shift_lines>>
sectionVars == <<m_pc, monitoring_context, section_lines>>
oncallVars == <<o_pc, o_schedules, o_idx, o_out, o_log>>
notFetchVars  == <<syncVars, enrichVars, appVars, convertVars, renderVars, sectionVars, oncallVars>>
notSyncVars   == <<fetchVars, enrichVars, appVars, convertVars, renderVars, sectionVars, oncallVars>>
notEnrichVars == <<fetchVars, syncVars, appVars, convertVars, renderVars, sectionVars, oncallVars>>
notAppVars    == <<fetchVars, syncVars, enrichVars, convertVars, renderVars, sectionVars, oncallVars>>
notConvertVars == <<fetchVars, syncVars, enrichVars, appVars, renderVars, sectionVars, oncallVars>>
notRenderVars == <<fetchVars, syncVars, enrichVars, appVars, convertVars, sectionVars, oncallVars>>
notSectionVars == <<fetchVars, syncVars, enrichVars, appVars, convertVars, renderVars, oncallVars>>
notOncallVars == <<fetchVars, syncVars, enrichVars, appVars, convertVars, renderVars, sectionVars>>
vars == <<fetchVars, syncVars, enrichVars, appVars, convertVars, renderVars, sectionVars, oncallVars>>

-----------------------------------------------------------------------------
(* Bounds of the model                                                     *)

MaxItemsCap == 3      \* max_items ranges over None, 0 .. MaxItemsCap
MaxPageSize == 2      \* items_per_page ranges over 1 .. MaxPageSize
MaxPageLen  == 2      \* a non-empty page of the source holds 1 .. MaxPageLen records
MaxRecords  == 2      \* raw records the source hands to one sync run
MaxId       == 2      \* record ids are 1 .. MaxId
MaxAppPages == 2      \* config.processing.max_pages ranges over 0 .. MaxAppPages
MaxShifts   == 11     \* a schedule carries 0 .. MaxShifts shifts
MaxEntries  == 4      \* a monitoring_context list holds 0 .. MaxEntries entries
MaxTotal    == 4      \* an offset source holds 0 .. MaxTotal records
MaxSchedules == 2     \* fetch_schedules enhances 0 .. MaxSchedules schedules
MaxRefs     == 2      \* a schedule has 0 .. MaxRefs shifts
MaxOverrides == 1     \* ... and 0 .. MaxOverrides override shifts
MaxSourcePages == 2   \* the source of a followed type has 0 .. MaxSourcePages pages

-----------------------------------------------------------------------------
(* Python values                                                           *)

\* None is kept apart from every int the model uses for max_items (>= 0).
None == -1

\* Python truthiness of an Optional[int]: None and 0 are falsy.
Truthy_ZeroCounts(m) == m # None
Truthy(m) == m # None /\ m # 0

Min(a, b) == IF a <= b THEN a ELSE b

\* seq[:n] for n >= 0
Take(seq, n) == SubSeq(seq, 1, Min(n, Len(seq)))

\* <<a, a+1, ..., b>>
Range(a, b) == [i \in 1 .. (b - a + 1) |-> a + i - 1]

-----------------------------------------------------------------------------
(* fetch_paginated_data                                                    *)

max_pages == 10

\* while page <= max_pages
LoopCondition_NoSafetyLimit(p) == TRUE
LoopCondition(p) == p <= max_pages

\* if max_items and len(all_items) >= max_items: break
CapReached(m, items) == Truthy(m) /\ Len(items) >= m

\* params["page[size]"]: items_per_page, or min(items_per_page, remaining_slots)
PageSize(m, ipp, items) ==
    IF Truthy(m) THEN Min(ipp, m - Len(items)) ELSE ipp

\* except Exception: log, break -- the accumulated items are kept
AfterPageError_Discard(items) == << >>
AfterPageError(items) == items

\* return all_items[:max_items] if max_items else all_items
FetchReturn_NoTruncation(m, items) == items
FetchReturn(m, items) == IF Truthy(m) THEN Take(items, m) ELSE items

\* all_items.extend(items): the source numbers its records in serving order
Extend(items, n) == items \o Range(served + 1, served + n)

FetchIdle ==
    /\ f_pc = "idle"
    /\ max_items = None
    /\ items_per_page = 1
    /\ all_items = << >>
    /\ page = 1
    /\ requests = << >>
    /\ served = 0
    /\ emptyAt = 1
    /\ failedPage = 0
    /\ total = 0
    /\ fetched_result = << >>

\* Entry of the call: all_items = [], page = 1; the arguments and the source
\* are the environment's.
FetchEntry ==
    /\ f_pc = "loop"
    /\ max_items \in {None} \cup (0 .. MaxItemsCap)
    /\ items_per_page \in 1 .. MaxPageSize
    /\ all_items = << >>
    /\ page = 1
    /\ requests = << >>
    /\ served = 0
    /\ emptyAt \in 1 .. (max_pages + 2)
    /\ failedPage = 0
    /\ total = 0
    /\ fetched_result = << >>

\* One iteration of the loop reaches self._make_request(endpoint, params).
CanRequest ==
    /\ f_pc = "loop"
    /\ LoopCondition(page)
    /\ ~CapReached(max_items, all_items)

IssueRequest ==
    requests' = Append(requests,
                       [number |-> page,
                        size |-> PageSize(max_items, items_per_page, all_items)])

\* _make_request raises (network / HTTP error): except branch, break.
RequestFails ==
    /\ CanRequest
    /\ IssueRequest
    /\ all_items' = AfterPageError(all_items)
    /\ failedPage' = page
    /\ f_pc' = "break"
    /\ UNCHANGED <<max_items, items_per_page, page, served, emptyAt, total,
                   fetched_result>>
    /\ UNCHANGED notFetchVars

\* payload["data"] is empty: "No items found on page", break.
RequestEmpty ==
    /\ CanRequest
    /\ page = emptyAt
    /\ IssueRequest
    /\ f_pc' = "break"
    /\ UNCHANGED <<max_items, items_per_page, all_items, page, served, emptyAt,
                   failedPage, total, fetched_result>>
    /\ UNCHANGED notFetchVars

\* payload["data"] holds n records: extend, page += 1.
RequestItems ==
    /\ CanRequest
    /\ page < emptyAt
    /\ IssueRequest
    /\ \E n \in 1 .. MaxPageLen :
          /\ all_items' = Extend(all_items, n)
          /\ served' = served + n
    /\ page' = page + 1
    /\ UNCHANGED <<f_pc, max_items, items_per_page, emptyAt, failedPage, total,
                   fetched_result>>
    /\ UNCHANGED notFetchVars

\* The loop is left (break, cap reached, or page > max_pages): return.
FetchReturns ==
    /\ \/ f_pc = "break"
       \/ f_pc = "loop" /\ ~(LoopCondition(page) /\ ~CapReached(max_items, all_items))
    /\ fetched_result' = FetchReturn(max_items, all_items)
    /\ f_pc' = "done"
    /\ UNCHANGED <<max_items, items_per_page, all_items, page, requests, served,
                   emptyAt, failedPage, total>>
    /\ UNCHANGED notFetchVars

\* A source that serves page p of size s as the records at offsets
\* (p-1)*s .. p*s-1 of a collection of n records, numbered from 1
OffsetPage(p, s, n) == Range((p - 1) * s + 1, Min(p * s, n))

\* Entry of the call against such a source
OffsetEntry ==
    /\ f_pc = "loop"
    /\ max_items \in {None} \cup (0 .. MaxItemsCap)
    /\ items_per_page \in 1 .. MaxPageSize
    /\ all_items = << >>
    /\ page = 1
    /\ requests = << >>
    /\ served = 0
    /\ emptyAt = 1
    /\ failedPage = 0
    /\ total \in 0 .. MaxTotal
    /\ fetched_result = << >>

\* One iteration against the offset source: the request carries page[number]
\* and page[size]; an empty page breaks, a page with records is appended.
RequestOffsetPage ==
    /\ CanRequest
    /\ IssueRequest
    /\ LET items == OffsetPage(page, PageSize(max_items, items_per_page, all_items),
                               total)
       IN  IF items = << >>
           THEN /\ f_pc' = "break"
                /\ UNCHANGED <<all_items, page, served>>
           ELSE /\ all_items' = all_items \o items
                /\ served' = served + Len(items)
                /\ page' = page + 1
                /\ UNCHANGED f_pc
    /\ UNCHANGED <<max_items, items_per_page, emptyAt, failedPage, total, fetched_result>>
    /\ UNCHANGED notFetchVars

OffsetNext ==
    \/ RequestOffsetPage
    \/ FetchReturns

FetchNext ==
    \/ RequestFails
    \/ RequestEmpty
    \/ RequestItems
    \/ FetchReturns

-----------------------------------------------------------------------------
(* EnhancedIncidentFetcher.enrich_incidents_with_details                   *)

\* What enrichment reads of an incident: its id (0: missing or empty) and the
\* shape of attributes.severity:
\*   "absent"   no severity, or severity null / not an object / without data.id
\*   "ref"      severity.data.id names severity 1
\*   "nulldata" severity is an object whose data is null (likewise: attributes
\*              is null), so the chain .get("data", {}).get("id") meets None
SeverityShapes == {"absent", "ref", "nulldata"}
Incidents == [id : 0 .. MaxId, sev : SeverityShapes]

\* fetch_severity_definitions: the ids served by /severities, {} on failure
SeverityLookups == {{}, {1}, {2}}

\* What a lookup endpoint does for one incident
LookupOutcomes == {"items", "empty", "fail"}

\* fetch_incident_events / fetch_incident_action_items: payload.get("data", []),
\* or [] when the request raises
FetchPiece(outcome) == IF outcome = "fail" THEN "empty" ELSE outcome

\* The severity step dereferences severity_data.get("data", {}).get("id")
SeverityRaises(incident) == severity_lookup # {} /\ incident.sev = "nulldata"

SeverityDetails(incident) ==
    severity_lookup # {} /\ incident.sev = "ref" /\ 1 \in severity_lookup

\* incident appended as it came (no id)
Unenriched(incident) ==
    [id |-> incident.id, events |-> "unset", action_items |-> "unset",
     severity_details |-> FALSE]

EnrichIdle ==
    /\ e_pc = "idle"
    /\ e_incidents = << >>
    /\ include_events = FALSE
    /\ include_action_items = FALSE
    /\ severity_lookup = {}
    /\ e_idx = 1
    /\ enriched_incidents = << >>
    /\ e_calls = {}
    /\ e_failed = {}
    /\ e_log = << >>

\* Entry of the call
EnrichEntry ==
    /\ e_pc = "start"
    /\ e_incidents \in UNION {[1 .. k -> Incidents] : k \in 0 .. MaxRecords}
    /\ include_events \in BOOLEAN
    /\ include_action_items \in BOOLEAN
    /\ severity_lookup = {}
    /\ e_idx = 1
    /\ enriched_incidents = << >>
    /\ e_calls = {}
    /\ e_failed = {}
    /\ e_log = << >>

\* if not incidents: return incidents
EnrichNothing ==
    /\ e_pc = "start"
    /\ e_incidents = << >>
    /\ e_pc' = "done"
    /\ UNCHANGED <<e_incidents, include_events, include_action_items, severity_lookup,
                   e_idx, enriched_incidents, e_calls, e_failed, e_log>>
    /\ UNCHANGED notEnrichVars

\* severity_lookup = self.fetch_severity_definitions(): one request to
\* /severities ahead of the loop; a request that raises gives {}
FetchSeverityDefinitions ==
    /\ e_pc = "start"
    /\ e_incidents # << >>
    /\ severity_lookup' \in SeverityLookups
    /\ e_log' = Append(e_log, <<0, "severities">>)
    /\ e_pc' = "loop"
    /\ UNCHANGED <<e_incidents, include_events, include_action_items, e_idx,
                   enriched_incidents, e_calls, e_failed>>
    /\ UNCHANGED notEnrichVars

EnrichLoop == e_pc = "loop" /\ e_idx <= Len(e_incidents)

\* if not incident_id: append the incident as it is, continue
EnrichSkipsIncident ==
    /\ EnrichLoop
    /\ e_incidents[e_idx].id = 0
    /\ enriched_incidents' = Append(enriched_incidents, Unenriched(e_incidents[e_idx]))
    /\ e_idx' = e_idx + 1
    /\ UNCHANGED <<e_pc, e_incidents, include_events, include_action_items,
                   severity_lookup, e_calls, e_failed, e_log>>
    /\ UNCHANGED notEnrichVars

\* The lookups of one loop iteration, as the configured pieces ask for them
LookupsOf(i) ==
    (IF include_events THEN {<<i, "events">>} ELSE {})
        \cup (IF include_action_items THEN {<<i, "action_items">>} ELSE {})

\* ... in the order the iteration issues them: events, then action items
LookupSeq(i) ==
    (IF include_events THEN << <<i, "events">> >> ELSE << >>)
        \o (IF include_action_items THEN << <<i, "action_items">> >> ELSE << >>)

\* ... and those of them whose request raised
FailedOf(i, ev, ai) ==
    {c \in LookupsOf(i) : \/ c[2] = "events" /\ ev = "fail"
                          \/ c[2] = "action_items" /\ ai = "fail"}

\* One iteration for an incident with an id: the configured lookups, then the
\* severity step, then the append.
EnrichIncident ==
    /\ EnrichLoop
    /\ e_incidents[e_idx].id # 0
    /\ \E ev \in LookupOutcomes, ai \in LookupOutcomes :
          /\ (~include_events => ev = "empty")
          /\ (~include_action_items => ai = "empty")
          /\ e_calls' = e_calls \cup LookupsOf(e_idx)
          /\ e_failed' = e_failed \cup FailedOf(e_idx, ev, ai)
          /\ e_log' = e_log \o LookupSeq(e_idx)
          /\ IF SeverityRaises(e_incidents[e_idx])
             THEN /\ e_pc' = "raised"
                  /\ UNCHANGED <<enriched_incidents, e_idx>>
             ELSE /\ enriched_incidents' = Append(enriched_incidents,
                       [id |-> e_incidents[e_idx].id,
                        events |-> IF include_events THEN FetchPiece(ev) ELSE "unset",
                        action_items |-> IF include_action_items THEN FetchPiece(ai)
                                         ELSE "unset",
                        severity_details |-> SeverityDetails(e_incidents[e_idx])])
                  /\ e_idx' = e_idx + 1
                  /\ UNCHANGED e_pc
    /\ UNCHANGED <<e_incidents, include_events, include_action_items, severity_lookup>>
    /\ UNCHANGED notEnrichVars

\* return enriched_incidents
EnrichReturns ==
    /\ e_pc = "loop"
    /\ e_idx > Len(e_incidents)
    /\ e_pc' = "done"
    /\ UNCHANGED <<e_incidents, include_events, include_action_items, severity_lookup,
                   e_idx, enriched_incidents, e_calls, e_failed, e_log>>
    /\ UNCHANGED notEnrichVars

EnrichNext ==
    \/ EnrichNothing
    \/ FetchSeverityDefinitions
    \/ EnrichSkipsIncident
    \/ EnrichIncident
    \/ EnrichReturns

-----------------------------------------------------------------------------
(* app.py: module-level code and the __main__ block                        *)

\* a_exit while the process has not exited
NoExit == -1

\* What get_config() of this repository gives the module-level code: it raises
\* ValueError (a required secret or key is missing), or it returns an AppConfig
\* whose processing section is a ProcessingConfig of max_pages and
\* sync_interval_minutes (config.py 56-59, 141-144), without the max_incidents
\* and items_per_page that the script reads.
ConfigStates == {"invalid", "no_max_incidents"}

\* The run of the program: the configuration is one that config.py gives.
ProgramRun == config_state \in ConfigStates

\* The script reads config.processing.max_incidents (lines 26, 243-272) and
\* config.processing.items_per_page (line 259): it is written against a
\* configuration that carries them ("complete"), which config.py does not
\* build.  The script is followed from such a configuration as well as from
\* those of ConfigStates: what holds of every run below holds of the program,
\* and only the runs under ProgramRun are runs of the program as it stands.
ScriptConfigs == ConfigStates \cup {"complete"}

\* sys.argv[1]: not given, the empty string, a string isoparse accepts, or a
\* non-empty string isoparse rejects with ValueError
SinceArgs == {"absent", "empty", "valid", "invalid"}

\* `if since:` -- the validation runs for a non-empty argument only
SinceIsValidated(arg) == arg \notin {"absent", "empty"}

Exited(code) == a_pc' = "exited" /\ a_exit' = code

\* One call to the source API or the index API (page number and size for a
\* page request, 0 otherwise)
Call(name, number, size) ==
    a_calls' = Append(a_calls, [op |-> name, number |-> number, size |-> size])

Met(kind) == a_errors' = a_errors \cup {kind}

AppIdle ==
    /\ a_pc = "idle"
    /\ config_state = "invalid"
    /\ since = "absent"
    /\ processing = [max_incidents |-> 0, max_pages |-> 0, items_per_page |-> 1]
    /\ page_num = 1
    /\ all_incidents_data = 0
    /\ docs_to_index = 0
    /\ a_calls = << >>
    /\ a_errors = {}
    /\ a_exit = NoExit
    /\ a_finished = FALSE

\* The process starts: `python app.py [since]`
AppEntry ==
    /\ a_pc = "load"
    /\ config_state \in ScriptConfigs
    /\ since \in SinceArgs
    /\ processing \in [max_incidents : 0 .. MaxItemsCap, max_pages : 0 .. MaxAppPages,
                        items_per_page : 1 .. MaxPageSize]
    /\ page_num = 1
    /\ all_incidents_data = 0
    /\ docs_to_index = 0
    /\ a_calls = << >>
    /\ a_errors = {}
    /\ a_exit = NoExit
    /\ a_finished = FALSE

\* Lines 14-26: config = get_config(); ... config.processing.max_incidents.
\* An exception here is not caught: traceback, exit code 1.
LoadModule_ReadsNoField ==
    /\ a_pc = "load"
    /\ IF config_state # "invalid"
       THEN a_pc' = "validate" /\ UNCHANGED <<a_exit, a_errors>>
       ELSE Exited(1) /\ Met("configuration")
    /\ UNCHANGED <<config_state, since, processing, page_num, all_incidents_data,
                   docs_to_index, a_calls, a_finished>>
    /\ UNCHANGED notAppVars
LoadModule ==
    /\ a_pc = "load"
    /\ IF config_state = "complete"
       THEN a_pc' = "validate" /\ UNCHANGED <<a_exit, a_errors>>
       ELSE Exited(1) /\ Met("configuration")
    /\ UNCHANGED <<config_state, since, processing, page_num, all_incidents_data,
                   docs_to_index, a_calls, a_finished>>
    /\ UNCHANGED notAppVars

\* Lines 234-243: validate the 'since' argument.
ValidateSince ==
    /\ a_pc = "validate"
    /\ IF SinceIsValidated(since) /\ since = "invalid"
       THEN Exited(1) /\ Met("since")
       ELSE a_pc' = "client" /\ UNCHANGED <<a_exit, a_errors>>
    /\ UNCHANGED <<config_state, since, processing, page_num, all_incidents_data,
                   docs_to_index, a_calls, a_finished>>
    /\ UNCHANGED notAppVars

\* Line 246: with glean_client() as c -- a failure reaches the outer handlers.
CreateClient ==
    /\ a_pc = "client"
    /\ Call("client", 0, 0)
    /\ \E ok \in BOOLEAN :
          IF ok THEN a_pc' = "declare" /\ UNCHANGED <<a_exit, a_errors>>
          ELSE Exited(1) /\ Met("client")
    /\ UNCHANGED <<config_state, since, processing, page_num, all_incidents_data,
                   docs_to_index, a_finished>>
    /\ UNCHANGED notAppVars

\* ensure_datasource re-raises what datasources.add raises; the outer handlers
\* of the main flow then exit with code 1.
AfterDeclareError_Continue == [pc |-> "fetch", exit |-> NoExit]
AfterDeclareError == [pc |-> "exited", exit |-> 1]

\* Line 247: ensure_datasource(c)
DeclareDatasource ==
    /\ a_pc = "declare"
    /\ Call("declare", 0, 0)
    /\ \E ok \in BOOLEAN :
          IF ok THEN a_pc' = "fetch" /\ UNCHANGED <<a_exit, a_errors>>
          ELSE /\ a_pc' = AfterDeclareError.pc
               /\ a_exit' = AfterDeclareError.exit
               /\ Met("declare")
    /\ UNCHANGED <<config_state, since, processing, page_num, all_incidents_data,
                   docs_to_index, a_finished>>
    /\ UNCHANGED notAppVars

\* Line 252-255: for page_num in range(1, max_pages + 1), left when
\* len(all_incidents_data) >= max_incidents
InFetchLoop ==
    /\ a_pc = "fetch"
    /\ page_num <= processing.max_pages
    /\ all_incidents_data < processing.max_incidents

\* Lines 258-259: current_items_per_page
CurrentItemsPerPage ==
    LET remaining_slots == processing.max_incidents - all_incidents_data
    IN  IF remaining_slots > 0 THEN Min(processing.items_per_page, remaining_slots)
        ELSE processing.items_per_page

\* Lines 272-277: incidents_to_process = all_incidents_data[:max_incidents];
\* nothing to process: sys.exit(0)
AfterFetchLoop(fetched) ==
    IF Min(fetched, processing.max_incidents) = 0
    THEN Exited(0)
    ELSE a_pc' = "convert" /\ UNCHANGED a_exit

\* fetch_incidents returns a non-empty page: extend, next page.
FetchPageItems ==
    /\ InFetchLoop
    /\ Call("fetch", page_num, CurrentItemsPerPage)
    /\ \E n \in 1 .. MaxPageLen :
          /\ all_incidents_data' = all_incidents_data + n
          /\ page_num' = page_num + 1
    /\ UNCHANGED <<a_pc, config_state, since, processing, docs_to_index, a_errors,
                   a_exit, a_finished>>
    /\ UNCHANGED notAppVars

\* fetch_incidents returns []: the page is empty, or requests raised a
\* RequestException (an HTTP error status included), which fetch_incidents
\* catches, logs and turns into []. The loop is left.
FetchPageEmpty ==
    /\ InFetchLoop
    /\ Call("fetch", page_num, CurrentItemsPerPage)
    /\ \E http_error \in BOOLEAN :
          IF http_error THEN Met("source_http") ELSE UNCHANGED a_errors
    /\ AfterFetchLoop(all_incidents_data)
    /\ UNCHANGED <<config_state, since, processing, page_num, all_incidents_data,
                   docs_to_index, a_finished>>
    /\ UNCHANGED notAppVars

\* fetch_incidents raises something else (payload without "data": KeyError):
\* except Exception of the main flow, exit code 1.
FetchPageRaises ==
    /\ InFetchLoop
    /\ Call("fetch", page_num, CurrentItemsPerPage)
    /\ Met("unexpected")
    /\ Exited(1)
    /\ UNCHANGED <<config_state, since, processing, page_num, all_incidents_data,
                   docs_to_index, a_finished>>
    /\ UNCHANGED notAppVars

\* The loop ends without a request: range exhausted or max_incidents reached.
FetchLoopEnds ==
    /\ a_pc = "fetch"
    /\ ~InFetchLoop
    /\ AfterFetchLoop(all_incidents_data)
    /\ UNCHANGED <<config_state, since, processing, page_num, all_incidents_data,
                   docs_to_index, a_calls, a_errors, a_finished>>
    /\ UNCHANGED notAppVars

\* Lines 289-291: if not docs_to_index: sys.exit(0)
AfterConversion_AlwaysIndex(n) == a_pc' = "index" /\ UNCHANGED a_exit
AfterConversion(n) ==
    IF n = 0 THEN Exited(0) ELSE a_pc' = "index" /\ UNCHANGED a_exit

\* Lines 279-291: to_doc over incidents_to_process; to_doc returns None for a
\* record it cannot convert; no document at all: sys.exit(0). A record that
\* is no JSON object raises at incident_data.get: exit code 1.
ConvertIncidents ==
    /\ a_pc = "convert"
    /\ \E raises \in BOOLEAN,
          n \in 0 .. Min(all_incidents_data, processing.max_incidents) :
          IF raises
          THEN /\ Exited(1)
               /\ Met("unexpected")
               /\ UNCHANGED docs_to_index
          ELSE /\ docs_to_index' = n
               /\ AfterConversion(n)
               /\ UNCHANGED a_errors
    /\ UNCHANGED <<config_state, since, processing, page_num, all_incidents_data,
                   a_calls, a_finished>>
    /\ UNCHANGED notAppVars

\* Lines 301-312: GleanError or any other exception of documents.index:
\* log, sys.exit(1).
AfterIndexError_LogOnly == [exit |-> 0, finished |-> TRUE]
AfterIndexError == [exit |-> 1, finished |-> FALSE]

\* Lines 293-316: c.indexing.documents.index(...), then "Script finished
\* successfully." and the normal end of the script (exit code 0).
BulkIndex ==
    /\ a_pc = "index"
    /\ Call("index", 0, 0)
    /\ \E ok \in BOOLEAN :
          IF ok
          THEN /\ Exited(0)
               /\ a_finished' = TRUE
               /\ UNCHANGED a_errors
          ELSE /\ Exited(AfterIndexError.exit)
               /\ a_finished' = AfterIndexError.finished
               /\ Met("index")
    /\ UNCHANGED <<config_state, since, processing, page_num, all_incidents_data,
                   docs_to_index>>
    /\ UNCHANGED notAppVars

AppNext ==
    \/ LoadModule
    \/ ValidateSince
    \/ CreateClient
    \/ DeclareDatasource
    \/ FetchPageItems
    \/ FetchPageEmpty
    \/ FetchPageRaises
    \/ FetchLoopEnds
    \/ ConvertIncidents
    \/ BulkIndex

-----------------------------------------------------------------------------
(* Raw records and the document mappers                                    *)

\* SyncCoordinator.data_type_configs, in insertion order
DataTypes_AlertsFirst == <<"alerts", "incidents", "schedules", "escalation_policies",
                           "retrospectives">>
DataTypes == <<"incidents", "alerts", "schedules", "escalation_policies",
               "retrospectives">>

TypeSet == {DataTypes[i] : i \in 1 .. Len(DataTypes)}

\* the fields of config.DataTypesConfig
ConfigFields == {"incidents", "alerts", "schedules", "escalation_policies"}

\* object_type each mapper passes to _create_base_document
ObjectType(t) ==
    CASE t = "incidents" -> "Incident"
      [] t = "alerts" -> "Alert"
      [] t = "schedules" -> "Schedule"
      [] t = "escalation_policies" -> "EscalationPolicy"
      [] t = "retrospectives" -> "Retrospective"

Ids == 1 .. MaxId

\* An element of payload["data"].  A JSON object is
\*   "ok"        attributes present, every field the mapper reads is usable
\*   "noattrs"   no 'attributes' key, or attributes = {}
\*   "malformed" attributes present, with a truthy 'url' that is no string
\*               (5, true, ["x"]): view_url.strip() raises inside convert
\*               (base.py 116); no fetcher reads the field
\*   "nullattrs" 'attributes': null
\*   "nullsev"   attributes present, with 'severity': {"data": null}
\* and an element that is no JSON object is a "str" or a "null".
ObjectKinds == {"ok", "noattrs", "malformed"}
SeverityKinds == {"nullattrs", "nullsev"}
OtherKinds  == {"str", "null"}

\* The records a source serves.  A record that gives no document under any
\* fetcher and whose id nothing reads afterwards ("malformed") is served on
\* one id; an element that is no object has no id.
Items ==
    [id : Ids, kind : ObjectKinds \ {"malformed"}] \cup [id : {1}, kind : {"malformed"}]
        \cup [id : {0}, kind : OtherKinds]

\* The records the source of type t serves.  The two shapes that the severity
\* step of the incident enrichment dereferences are served for incidents, on
\* one id (for the other types 'attributes': null behaves as "noattrs", and a
\* null severity as "ok").
ItemsOf(t) ==
    IF t = "incidents" THEN Items \cup [id : {1}, kind : SeverityKinds] ELSE Items

IsObject(item) == item.kind \notin OtherKinds

\* str(e) of the AttributeError raised by x.get on a value x that is no
\* object: the record itself ("str", "null"), or the None that
\* incident.get("attributes", {}) and severity_data.get("data", {}) give for
\* an explicit null.
AttributeErrorMsg(item) ==
    IF item.kind = "str" THEN "'str' object has no attribute 'get'"
    ELSE "'NoneType' object has no attribute 'get'"

\* <Type>DocumentMapper.convert: "doc", "none" (returns None) or "raise".
\* Everything inside convert runs under try/except Exception -> return None,
\* but the except handler itself evaluates item.get('id', 'Unknown').
\* 'attributes': null is "if not attributes: return None"; a null severity
\* data raises in IncidentDocumentMapper._add_severity_data, inside the try,
\* and no other mapper dereferences it.
ConvertOutcome(item, t) ==
    CASE item.kind = "ok" -> "doc"
      [] item.kind = "noattrs" -> "none"
      [] item.kind = "malformed" -> "none"
      [] item.kind = "nullattrs" -> "none"
      [] item.kind = "nullsev" -> IF t = "incidents" THEN "none" ELSE "doc"
      [] OTHER -> "raise"

\* _enhance_alerts_with_monitoring_data: the supplementary endpoints are not
\* called (routing_rules = urgencies = alert_groups = alert_events = None), so
\* the context attached to every alert holds four empty lists.
MonitoringContext ==
    [routing_rules |-> << >>, urgencies |-> << >>, alert_groups |-> << >>,
     recent_events |-> << >>]

\* _add_monitoring_rules_content: one section per non-empty list of
\* alert.get("monitoring_context", {}); the number of sections rendered.
MonitoringSections(context) ==
    Cardinality({k \in DOMAIN context : context[k] # << >>})

\* the document convert builds: _create_base_document(item_id, object_type, ..),
\* and for an alert the monitoring sections of its body, rendered from the
\* context the alert carries
Doc(item, t, context) ==
    [id |-> item.id, object_type |-> ObjectType(t),
     monitoring |-> IF t = "alerts" THEN MonitoringSections(context) ELSE 0]

\* Does the fetcher of type t touch each record outside a try block after the
\* pages are in?  schedules and escalation policies do (schedule.get("id"),
\* policy.get("id")), incidents do when enhancement is configured
\* (incident.get("id"), and the severity step); alerts enrich inside a try,
\* retrospectives and plain incidents do not enrich.
EnrichesUnguarded(t, enh) ==
    \/ t \in {"schedules", "escalation_policies"}
    \/ t = "incidents" /\ enh

HasNonObject(raw) == \E i \in 1 .. Len(raw) : ~IsObject(raw[i])

\* _enhance_alerts_with_monitoring_data, the try block: `for alert in alerts:
\* alert["monitoring_context"] = monitoring_context` raises TypeError at the
\* first element that is no object; `except Exception` logs a warning and the
\* list is returned as it is: the alerts before that element carry the context,
\* that element and the alerts after it carry none.
EnhanceAlerts(payload) ==
    LET bad == {i \in 1 .. Len(payload) : ~IsObject(payload[i])}
    IN  [failed |-> HasNonObject(payload),
         with_context |-> {i \in 1 .. Len(payload) : \A j \in bad : i < j}]

\* alert.get("monitoring_context", {}) of the record at position i, as the
\* mapper reads it
ContextOf(raw, i) ==
    IF i \in EnhanceAlerts(raw).with_context THEN MonitoringContext ELSE << >>

\* _enhance_incidents_with_related_data, the severity step: with a non-empty
\* severity_lookup, incident.get("attributes", {}).get("severity", {}) and
\* severity_data.get("data", {}).get("id") run outside any try, and raise on
\* 'attributes': null and on 'severity': {"data": null}.
SeverityStepRaises(sev, item) == sev /\ item.kind \in SeverityKinds

\* Does going through record item raise in the fetcher of type t?
RaisesInFetcher(t, enh, sev, item) ==
    /\ EnrichesUnguarded(t, enh)
    /\ \/ ~IsObject(item)
       \/ t = "incidents" /\ SeverityStepRaises(sev, item)

\* config_info['fetcher'](...): the records of the pages, or the exception
\* that the first record raising in the enrichment loop lets out of the
\* fetcher.  sev: severity_lookup is non-empty.
Fetcher_FailureRaises(t, enh, sev, payload) ==
    IF failedPage # 0
       \/ \E i \in 1 .. Len(payload) : RaisesInFetcher(t, enh, sev, payload[i])
    THEN [raised |-> TRUE, msg |-> "request failed", data |-> << >>]
    ELSE [raised |-> FALSE, msg |-> "", data |-> payload]
Fetcher(t, enh, sev, payload) ==
    LET idx == {i \in 1 .. Len(payload) : RaisesInFetcher(t, enh, sev, payload[i])}
    IN  IF idx # {}
        THEN [raised |-> TRUE,
              msg |-> AttributeErrorMsg(payload[CHOOSE i \in idx : \A j \in idx : i <= j]),
              data |-> << >>]
        ELSE [raised |-> FALSE, msg |-> "", data |-> payload]

\* _sync_data_type, the conversion loop: for item in raw_data: try mapper(item)
\* ... except Exception as e: logger.error(f"... {item.get('id', 'Unknown')}")
\* The handler raises again when item has no get, and that leaves the loop.
MapLoop(raw, t) ==
    LET F[i \in 0 .. Len(raw)] ==
          IF i = 0 THEN [raised |-> FALSE, msg |-> "", documents |-> << >>, calls |-> 0]
          ELSE LET prev == F[i - 1]
                   o == ConvertOutcome(raw[i], t)
               IN  IF prev.raised THEN prev
                   ELSE IF o = "doc"
                        THEN [prev EXCEPT !.documents = Append(@, Doc(raw[i], t, ContextOf(raw, i))),
                                          !.calls = @ + 1]
                   ELSE IF o = "none"
                        THEN [prev EXCEPT !.calls = @ + 1]
                   ELSE [raised |-> TRUE, msg |-> AttributeErrorMsg(raw[i]),
                         documents |-> << >>, calls |-> prev.calls + 1]
    IN  F[Len(raw)]

-----------------------------------------------------------------------------
(* One record through a mapper: view_url and the timestamps                *)

\* attributes.get("url"), as a JSON value: key absent, null, "", a string of
\* blanks, a URL, or a value that is not a string: a "falsy" one (0, 0.0,
\* false, [], {}) or a truthy one ("nonstring": 5, true, ["x"], {"a": 1})
UrlShapes == {"absent", "null", "empty", "blank", "given", "falsy", "nonstring"}

\* attributes.get("created_at") / .get("updated_at").  A "valid" value is an
\* ISO-8601 string: its wall-clock time, in seconds after 1970-01-01T00:00:00,
\* and its UTC offset in seconds.  "unparsable" is a string isoparse rejects.
\* A value that is not a string is "falsy" (0, false, [], {}), an "object"
\* (a JSON object of four or more keys), or another truthy one ("nonstring":
\* a number, true, a list, an object of fewer keys).
TsShapes == {"absent", "null", "empty", "unparsable", "falsy", "nonstring", "object"}
TsValues ==
    [shape : TsShapes, local : {0}, offset : {0}]
        \cup [shape : {"valid"}, local : {0, 3600}, offset : {0, 3600}]

ConvertPaths == {"mapper", "to_doc"}

\* the records one conversion path is given (app.py handles incidents)
ConvertRecords(path) ==
    [type : IF path = "to_doc" THEN {"incidents"} ELSE TypeSet,
     id : Ids,
     url : IF path = "to_doc" THEN UrlShapes \ {"falsy", "nonstring"} ELSE UrlShapes,
     created_at : TsValues, updated_at : TsValues]

\* type_mapping of _create_base_document
type_mapping ==
    [Incident |-> "incidents", Alert |-> "alerts", Schedule |-> "schedules",
     EscalationPolicy |-> "escalation_policies"]

\* object_type.lower() + "s"
LowerPlusS(object_type) ==
    CASE object_type = "Incident" -> "incidents"
      [] object_type = "Alert" -> "alerts"
      [] object_type = "Schedule" -> "schedules"
      [] object_type = "EscalationPolicy" -> "escalationpolicys"
      [] object_type = "Retrospective" -> "retrospectives"

\* type_mapping.get(object_type, object_type.lower() + "s")
TypePlural(object_type) ==
    IF object_type \in DOMAIN type_mapping THEN type_mapping[object_type]
    ELSE LowerPlusS(object_type)

\* A view_url value: the record's own url ("source"), the generated
\* f"https://rootly.com/account/{object_type_url}/{item_id}" ("default"), or
\* the value a.get("url") had: None, "" or blanks.
SourceUrl == [kind |-> "source", plural |-> "", id |-> 0]
DefaultUrl(object_type, id) ==
    [kind |-> "default", plural |-> TypePlural(object_type), id |-> id]
Verbatim(url) ==
    IF url = "given" THEN SourceUrl
    ELSE [kind |-> IF url = "absent" THEN "null" ELSE url, plural |-> "", id |-> 0]

\* if view_url and view_url.strip(): ... else: the default
BaseViewUrl(url, object_type, id) ==
    IF url = "given" THEN SourceUrl ELSE DefaultUrl(object_type, id)

\* to_doc: "view_url": a.get("url")
LegacyViewUrl(url, object_type, id) == Verbatim(url)

ViewUrl(path, url, object_type, id) ==
    IF path = "mapper" THEN BaseViewUrl(url, object_type, id)
    ELSE LegacyViewUrl(url, object_type, id)

\* if view_url and view_url.strip(): a falsy value takes the else branch;
\* .strip() on a truthy value that is not a string raises AttributeError
ViewUrlRaises(path, url) == path = "mapper" /\ url = "nonstring"

\* if ts_value := attributes.get(api_field)
TsTruthy(v) == v.shape \notin {"absent", "null", "empty", "falsy"}

\* The interpreters the package runs on (it pins none; its syntax needs 3.10):
\* "3.11" stands for those before 3.12, where a slice is unhashable, "3.12"
\* for 3.12 and later, where it is hashable.
Pythons == {"3.11", "3.12"}

\* dtparse.isoparse(ts_value) on a truthy value: the datetime, or the
\* exception raised.  A string that is no ISO-8601 date gives ValueError;
\* len(), int() and the ISO length test give TypeError or ValueError on a
\* value that is not a string; on an object of four or more keys
\* int(dt_str[0:4]) indexes the dict with a slice, which is TypeError
\* (unhashable) before 3.12 and KeyError from 3.12 on.
IsoParse(v, python) ==
    CASE v.shape = "valid" -> "ok"
      [] v.shape = "unparsable" -> "ValueError"
      [] v.shape = "nonstring" -> "TypeError"
      [] v.shape = "object" -> IF python = "3.11" THEN "TypeError" ELSE "KeyError"

\* int(datetime.timestamp()): seconds since the epoch, UTC
Epoch(v) == v.local - v.offset

\* except (ValueError, TypeError): log a warning, leave the field out
TimestampCaught(exc) == exc \in {"ValueError", "TypeError"}

TimestampFields == {"created_at", "updated_at"}

\* the exception one field lets escape
FieldRaises(v, python) ==
    TsTruthy(v) /\ IsoParse(v, python) # "ok" /\ ~TimestampCaught(IsoParse(v, python))

\* _extract_timestamps (and the same loop in to_doc): the fields set
ExtractTimestamps(record, python) ==
    [f \in {g \in TimestampFields :
                TsTruthy(record[g]) /\ IsoParse(record[g], python) = "ok"}
        |-> Epoch(record[f])]

\* an exception reaches the except Exception of convert / to_doc: return None
ConvertRaises(path, record, python) ==
    \/ ViewUrlRaises(path, record.url)
    \/ \E f \in TimestampFields : FieldRaises(record[f], python)

NoDocument == [produced |-> FALSE, id |-> 0, object_type |-> "",
               view_url |-> Verbatim("null"), timestamps |-> << >>]

ConvertIdle ==
    /\ c_pc = "idle"
    /\ c_path = "mapper"
    /\ c_record = [type |-> "incidents", id |-> 1, url |-> "absent",
                   created_at |-> [shape |-> "absent", local |-> 0, offset |-> 0],
                   updated_at |-> [shape |-> "absent", local |-> 0, offset |-> 0]]
    /\ c_doc = NoDocument
    /\ c_python = "3.11"

\* A record with non-empty attributes is handed to <Type>DocumentMapper.convert
\* or to app.to_doc.
ConvertEntry ==
    /\ c_pc = "called"
    /\ c_path \in ConvertPaths
    /\ c_record \in ConvertRecords(c_path)
    /\ c_doc = NoDocument
    /\ c_python \in Pythons

\* return models.DocumentDefinition(**doc_fields)
ConvertReturnsDocument ==
    /\ c_pc = "called"
    /\ ~ConvertRaises(c_path, c_record, c_python)
    /\ c_doc' = [produced |-> TRUE, id |-> c_record.id,
                 object_type |-> ObjectType(c_record.type),
                 view_url |-> ViewUrl(c_path, c_record.url,
                                      ObjectType(c_record.type), c_record.id),
                 timestamps |-> ExtractTimestamps(c_record, c_python)]
    /\ c_pc' = "returned"
    /\ UNCHANGED <<c_path, c_record, c_python>>
    /\ UNCHANGED notConvertVars

\* except Exception as e: log, return None
ConvertReturnsNone ==
    /\ c_pc = "called"
    /\ ConvertRaises(c_path, c_record, c_python)
    /\ c_pc' = "returned"
    /\ UNCHANGED <<c_path, c_record, c_doc, c_python>>
    /\ UNCHANGED notConvertVars

ConvertNext ==
    \/ ConvertReturnsDocument
    \/ ConvertReturnsNone

-----------------------------------------------------------------------------
(* ScheduleDocumentMapper._add_oncall_data: the "All Shifts" lines         *)

\* for shift in all_shifts[:10]
ShiftLimit == 10

UserIds == {"u1", "u2"}

\* A shift: whether it has (non-empty) attributes, and the id under
\* relationships.user.data ("none": no relationships, no user data or no id)
ShiftShapes == [attributes : BOOLEAN, user : {"none"} \cup UserIds]

\* A field of a user's attributes.  For name, full_name and
\* full_name_with_team "absent" stands for a missing key, null and "", which
\* `or` treats alike; first_name and last_name go through an f-string, which
\* tells a missing key ('') from null ('None').
NameShapes  == {"absent", "text"}
PartShapes  == {"absent", "null", "text"}
EmailShapes == {"absent", "null", "address", "nolocal"}

\* user_lookup[user_id]; attributes "null" is an entry {"attributes": null}
UserEntries ==
    [attributes : {"object"}, name : NameShapes, full_name : NameShapes,
     full_name_with_team : NameShapes, first_name : PartShapes,
     last_name : PartShapes, email : EmailShapes]
        \cup [attributes : {"null"}, name : {"absent"}, full_name : {"absent"},
              full_name_with_team : {"absent"}, first_name : {"absent"},
              last_name : {"absent"}, email : {"absent"}]

\* schedule.get('user_lookup', {}): no entry, or an entry for u1
UserLookups == {<< >>} \cup {[u \in {"u1"} |-> e] : e \in UserEntries}

\* f"{user_attrs.get('first_name', '')} {user_attrs.get('last_name', '')}".strip()
NamesJoined(first, last) ==
    CASE first = "text" /\ last = "text" -> "Janet Dow"
      [] first = "text" /\ last = "absent" -> "Janet"
      [] first = "text" /\ last = "null" -> "Janet None"
      [] first = "absent" /\ last = "text" -> "Dow"
      [] first = "absent" /\ last = "absent" -> ""
      [] first = "absent" /\ last = "null" -> "None"
      [] first = "null" /\ last = "text" -> "None Dow"
      [] first = "null" /\ last = "absent" -> "None"
      [] first = "null" /\ last = "null" -> "None None"

\* user_attrs.get('email', '').split('@')[0], for "jane@example.com" and
\* "@example.com"
EmailLocal(email) == IF email = "address" THEN "jane" ELSE ""

\* f"User {user_id}"
UserLabel(id) == IF id = "u1" THEN "User u1" ELSE "User u2"

\* the chain of `or`: the first operand that is truthy
UserDisplay(entry, id) ==
    IF entry.name = "text" THEN "Jane D."
    ELSE IF entry.full_name = "text" THEN "Jane Doe"
    ELSE IF entry.full_name_with_team = "text" THEN "Jane Doe (SRE)"
    ELSE IF NamesJoined(entry.first_name, entry.last_name) # ""
         THEN NamesJoined(entry.first_name, entry.last_name)
    ELSE IF EmailLocal(entry.email) # "" THEN EmailLocal(entry.email)
    ELSE UserLabel(id)

\* AttributeError inside the chain: user_data.get('attributes', {}) is None,
\* or the chain reaches user_attrs.get('email', '') and that is None
DisplayRaises(entry) ==
    \/ entry.attributes = "null"
    \/ /\ entry.name = "absent"
       /\ entry.full_name = "absent"
       /\ entry.full_name_with_team = "absent"
       /\ NamesJoined(entry.first_name, entry.last_name) = ""
       /\ entry.email = "null"

\* user_display of one shift that has attributes
ShiftDisplay(shift, lookup) ==
    IF shift.user = "none" THEN "Unknown User"
    ELSE IF shift.user \in DOMAIN lookup THEN UserDisplay(lookup[shift.user], shift.user)
    ELSE UserLabel(shift.user)

ShiftRaises(shift, lookup) ==
    /\ shift.attributes
    /\ shift.user \in DOMAIN lookup
    /\ DisplayRaises(lookup[shift.user])

\* the lines appended under "## All Shifts", each with the position of its
\* shift in all_shifts
ShiftLines(shifts, lookup) ==
    LET shown == Take(shifts, ShiftLimit)
        F[i \in 0 .. Len(shown)] ==
          IF i = 0 THEN << >>
          ELSE IF shown[i].attributes
               THEN Append(F[i - 1], [shift |-> i,
                                      display |-> ShiftDisplay(shown[i], lookup)])
               ELSE F[i - 1]
    IN  F[Len(shown)]

RenderIdle ==
    /\ r_pc = "idle"
    /\ all_shifts = << >>
    /\ user_lookup = << >>
    /\ shift_lines = << >>

\* An enriched schedule reaches _add_oncall_data: its first shift, and the
\* shifts after it, which are alike.
RenderEntry ==
    /\ r_pc = "called"
    /\ \E n \in 0 .. MaxShifts : \E a, b \in ShiftShapes :
          all_shifts = [i \in 1 .. n |-> IF i = 1 THEN a ELSE b]
    /\ user_lookup \in UserLookups
    /\ shift_lines = << >>

RenderShifts ==
    /\ r_pc = "called"
    /\ \A i \in 1 .. Min(ShiftLimit, Len(all_shifts)) : ~ShiftRaises(all_shifts[i], user_lookup)
    /\ shift_lines' = ShiftLines(all_shifts, user_lookup)
    /\ r_pc' = "returned"
    /\ UNCHANGED <<all_shifts, user_lookup>>
    /\ UNCHANGED notRenderVars

\* the AttributeError leaves _add_oncall_data (convert catches it and returns
\* None: the schedule gets no document)
RenderRaises ==
    /\ r_pc = "called"
    /\ \E i \in 1 .. Min(ShiftLimit, Len(all_shifts)) : ShiftRaises(all_shifts[i], user_lookup)
    /\ r_pc' = "raised"
    /\ UNCHANGED <<all_shifts, user_lookup, shift_lines>>
    /\ UNCHANGED notRenderVars

RenderNext ==
    \/ RenderShifts
    \/ RenderRaises

-----------------------------------------------------------------------------
(* AlertDocumentMapper._add_monitoring_rules_content                       *)

Sections == {"routing_rules", "urgencies", "alert_groups", "recent_events"}

\* A list attached under one key of monitoring_context: n entries, which all
\* have attributes or all lack them.
EntryLists == {[i \in 1 .. n |-> attrs] : n \in 0 .. MaxEntries, attrs \in BOOLEAN}

\* the entries a section's for loop goes over: routing_rules[:3], urgencies,
\* alert_groups[:3], recent_events[:3]
Iterated(section, list) ==
    IF section = "urgencies" THEN list ELSE Take(list, 3)

\* one "- ..." line for every entry iterated that has attributes
EntryLines(section, list) ==
    Cardinality({i \in DOMAIN Iterated(section, list) : Iterated(section, list)[i]})

SectionIdle ==
    /\ m_pc = "idle"
    /\ monitoring_context = [s \in Sections |-> << >>]
    /\ section_lines = [s \in Sections |-> 0]

\* An alert carrying a monitoring_context reaches the mapper.
SectionEntry ==
    /\ m_pc = "called"
    /\ monitoring_context \in [Sections -> EntryLists]
    /\ section_lines = [s \in Sections |-> 0]

AddMonitoringRulesContent ==
    /\ m_pc = "called"
    /\ section_lines' = [s \in Sections |-> EntryLines(s, monitoring_context[s])]
    /\ m_pc' = "returned"
    /\ UNCHANGED monitoring_context
    /\ UNCHANGED notSectionVars

-----------------------------------------------------------------------------
(* fetch_schedules: _enhance_schedule_with_oncall_data, _fetch_users_lookup *)

\* The users the source knows; "u3" is referenced by no shift
Users == {"u1", "u2", "u3"}

\* What a shift says about its user: relationships.user.data.id, a null
\* data ("none"), or a null user relationship ("bad")
ShiftRefs == {"u1", "none", "bad"}

\* ... and an override shift, under attributes.user
OverrideRefs == {"u2", "bad"}

\* fetch_single_endpoint: the data of the answer, or None when the request
\* raises; the callers test it for truth only, so None is the empty list
ListAnswers(refs, max) ==
    {[ok |-> FALSE, data |-> << >>]}
        \cup {[ok |-> TRUE, data |-> d] :
                 d \in UNION {[1 .. n -> refs] : n \in 0 .. max}}

UsersAnswers ==
    {[ok |-> FALSE, data |-> {}]}
        \cup {[ok |-> TRUE, data |-> d] : d \in {{"u2", "u3"}, Users}}

\* the ids a list of shifts or overrides references
IdsOf(data) == {data[i] : i \in 1 .. Len(data)} \cap Users

\* relationships.get('user', {}).get('data') on a null user relationship
CollectRaises(data) == \E i \in 1 .. Len(data) : data[i] = "bad"

\* _fetch_users_lookup: one request for the first 100 users, of which the
\* requested ids are kept; {} when the request raises
FetchUsersLookup_KeepAll(user_ids, answer) == answer.data
FetchUsersLookup(user_ids, answer) ==
    IF answer.ok THEN {u \in answer.data : u \in user_ids} ELSE {}

\* if user_ids: one users call; else no call
UsersCalls_PerShift(i, shifts, overrides) ==
    [k \in 1 .. (Len(shifts) + Len(overrides)) |-> <<i, "users">>]
UsersCalls(i, shifts, overrides) ==
    IF IdsOf(shifts) \cup IdsOf(overrides) # {} THEN << <<i, "users">> >> ELSE << >>

\* the three fetches that open the try block, in their order
ScheduleCalls(i) ==
    << <<i, "schedule_rotations">>, <<i, "shifts">>, <<i, "override_shifts">> >>

OncallIdle ==
    /\ o_pc = "idle"
    /\ o_schedules = << >>
    /\ o_idx = 1
    /\ o_out = << >>
    /\ o_log = << >>

\* fetch_schedules after fetch_paginated_data has returned the schedules
OncallEntry ==
    /\ o_pc = "loop"
    /\ o_schedules \in UNION {[1 .. k -> {0, 1}] : k \in 0 .. MaxSchedules}
    /\ o_idx = 1
    /\ o_out = << >>
    /\ o_log = << >>

OncallLoop == o_pc = "loop" /\ o_idx <= Len(o_schedules)

\* a schedule the loop leaves as it came
Untouched(id) ==
    [id |-> id, rotations |-> FALSE, all_shifts |-> FALSE, overrides |-> FALSE,
     referenced |-> {}, raised |-> FALSE, has_lookup |-> FALSE, user_lookup |-> {},
     users_ok |-> FALSE, served |-> {}]

\* if not schedule_id: return
EnhanceSkipsSchedule ==
    /\ OncallLoop
    /\ o_schedules[o_idx] = 0
    /\ o_out' = Append(o_out, Untouched(0))
    /\ o_idx' = o_idx + 1
    /\ UNCHANGED <<o_pc, o_schedules, o_log>>
    /\ UNCHANGED notOncallVars

\* The try block for a schedule with an id: rotations, shifts, override
\* shifts, the collection of the user ids, the users lookup. An exception of
\* the collection is logged and the schedule is left without user_lookup.
EnhanceSchedule ==
    /\ OncallLoop
    /\ o_schedules[o_idx] # 0
    /\ \E rotations \in BOOLEAN, shifts \in ListAnswers(ShiftRefs, MaxRefs),
          overrides \in ListAnswers(OverrideRefs, MaxOverrides) :
          LET raises   == CollectRaises(shifts.data) \/ CollectRaises(overrides.data)
              user_ids == IdsOf(shifts.data) \cup IdsOf(overrides.data)
              calls    == IF raises THEN << >>
                          ELSE UsersCalls(o_idx, shifts.data, overrides.data)
          IN  \E users \in IF calls = << >> THEN {[ok |-> FALSE, data |-> {}]}
                            ELSE UsersAnswers :
                  /\ o_log' = o_log \o ScheduleCalls(o_idx) \o calls
                  /\ o_out' = Append(o_out,
                        [id |-> o_schedules[o_idx],
                         rotations |-> rotations,
                         all_shifts |-> shifts.data # << >>,
                         overrides |-> overrides.data # << >>,
                         referenced |-> user_ids,
                         raised |-> raises,
                         has_lookup |-> ~raises,
                         user_lookup |-> IF raises \/ calls = << >> THEN {}
                                         ELSE FetchUsersLookup(user_ids, users),
                         users_ok |-> users.ok,
                         served |-> users.data])
    /\ o_idx' = o_idx + 1
    /\ UNCHANGED <<o_pc, o_schedules>>
    /\ UNCHANGED notOncallVars

\* return schedules
EnhanceReturns ==
    /\ o_pc = "loop"
    /\ o_idx > Len(o_schedules)
    /\ o_pc' = "done"
    /\ UNCHANGED <<o_schedules, o_idx, o_out, o_log>>
    /\ UNCHANGED notOncallVars

OncallNext ==
    \/ EnhanceSkipsSchedule
    \/ EnhanceSchedule
    \/ EnhanceReturns

-----------------------------------------------------------------------------
(* sync_all_data_types                                                     *)

\* results[data_type] = {'status': 'skipped', 'reason': 'disabled'}
SkippedEntry == [status |-> "skipped", reason |-> "disabled"]

\* results[data_type] = {'status': 'success', 'documents_created': len(documents)}
SuccessEntry(documents) == [status |-> "success", documents_created |-> Len(documents)]

\* results[data_type] = {'status': 'error', 'error': str(e)}
ErrorEntry_NoDescription(msg) == [status |-> "error", error |-> ""]
ErrorEntry(msg) == [status |-> "error", error |-> msg]

\* The deduplication loop: unique_documents, seen_ids, duplicates_removed.
Dedup_LastWins(docs) ==
    LET keep == {i \in 1 .. Len(docs) : \A j \in (i + 1) .. Len(docs) : docs[j].id # docs[i].id}
        F[i \in 0 .. Len(docs)] ==
          IF i = 0 THEN << >>
          ELSE IF i \in keep THEN Append(F[i - 1], docs[i]) ELSE F[i - 1]
    IN  [unique |-> F[Len(docs)], seen |-> {docs[i].id : i \in 1 .. Len(docs)},
         dups |-> Len(docs) - Cardinality(keep)]
Dedup(docs) ==
    LET F[i \in 0 .. Len(docs)] ==
          IF i = 0 THEN [unique |-> << >>, seen |-> {}, dups |-> 0]
          ELSE LET prev == F[i - 1]
                   doc == docs[i]
               IN  IF doc.id \notin prev.seen
                   THEN [prev EXCEPT !.unique = Append(@, doc),
                                     !.seen = @ \cup {doc.id}]
                   ELSE [prev EXCEPT !.dups = @ + 1]
    IN  F[Len(docs)]

\* results['summary']
SummaryEntry_CountsAll(unique, dups) ==
    [total_documents |-> Len(unique) + dups, duplicates_removed |-> dups,
     sync_status |-> "completed"]
SummaryEntry(unique, dups) ==
    [total_documents |-> Len(unique), duplicates_removed |-> dups,
     sync_status |-> "completed"]

\* if not config_info['config'].enabled
IsDisabled_Never(t) == FALSE
IsDisabled(t) == ~enabled[t]

NoData == [t \in TypeSet |-> << >>]
NoCalls == [t \in TypeSet |-> 0]
NoPipeline == [raised |-> FALSE, msg |-> "", data |-> << >>]

SyncIdle ==
    /\ s_pc = "idle"
    /\ enabled = [t \in TypeSet |-> FALSE]
    /\ enhanced = FALSE
    /\ cur = 1
    /\ pipeline = NoPipeline
    /\ results = << >>
    /\ all_documents = << >>
    /\ unique_documents = << >>
    /\ duplicates_removed = 0
    /\ raw_of = NoData
    /\ docs_of = NoData
    /\ fetch_calls = NoCalls
    /\ map_calls = NoCalls
    /\ budget = 0
    /\ has_severities = FALSE

\* Entry of sync_all_data_types on a constructed coordinator:
\* results = {}, all_documents = [].
\* Entry of the call, with a source that holds n records in all
SyncEntryWith(n) ==
    /\ s_pc = "loop"
    /\ enabled \in [TypeSet -> BOOLEAN]
    /\ enhanced \in BOOLEAN
    /\ cur = 1
    /\ pipeline = NoPipeline
    /\ results = << >>
    /\ all_documents = << >>
    /\ unique_documents = << >>
    /\ duplicates_removed = 0
    /\ raw_of = NoData
    /\ docs_of = NoData
    /\ fetch_calls = NoCalls
    /\ map_calls = NoCalls
    /\ budget = n
    /\ has_severities = FALSE

SyncEntry == SyncEntryWith(MaxRecords)

Payloads(t, n) == UNION {[1 .. k -> ItemsOf(t)] : k \in 0 .. n}

\* fetch_severity_definitions runs when the enhanced incident fetcher has
\* records to enrich; what /severities answers is the environment's choice.
SeverityAnswers(t, enh, payload) ==
    IF t = "incidents" /\ enh /\ payload # << >> THEN BOOLEAN ELSE {FALSE}

\* The loop reaches a disabled type: record 'skipped', continue.
SkipType ==
    /\ s_pc = "loop"
    /\ cur <= Len(DataTypes)
    /\ IsDisabled(DataTypes[cur])
    /\ results' = results @@ (DataTypes[cur] :> SkippedEntry)
    /\ cur' = cur + 1
    /\ UNCHANGED <<s_pc, enabled, enhanced, pipeline, all_documents, unique_documents,
                   duplicates_removed, raw_of, docs_of, fetch_calls, map_calls, budget,
                   has_severities>>
    /\ UNCHANGED notSyncVars

\* The loop reaches an enabled type: enter the try block, _sync_data_type calls
\* the fetcher, which returns the raw records or raises.
StartType ==
    /\ s_pc = "loop"
    /\ cur <= Len(DataTypes)
    /\ ~IsDisabled(DataTypes[cur])
    /\ \E payload \in Payloads(DataTypes[cur], budget) :
       \E sev \in SeverityAnswers(DataTypes[cur], enhanced, payload) :
          /\ pipeline' = Fetcher(DataTypes[cur], enhanced, sev, payload)
          /\ has_severities' = (has_severities \/ sev)
          /\ budget' = budget - Len(payload)
          /\ raw_of' = [raw_of EXCEPT ![DataTypes[cur]] = payload]
    /\ fetch_calls' = [fetch_calls EXCEPT ![DataTypes[cur]] = @ + 1]
    /\ s_pc' = "running"
    /\ UNCHANGED <<enabled, enhanced, cur, results, all_documents, unique_documents,
                   duplicates_removed, docs_of, map_calls>>
    /\ UNCHANGED notSyncVars

\* _sync_data_type returns its documents: extend all_documents, record 'success'.
TypeSucceeds ==
    /\ s_pc = "running"
    /\ ~pipeline.raised
    /\ LET m == MapLoop(pipeline.data, DataTypes[cur])
       IN  /\ ~m.raised
           /\ all_documents' = all_documents \o m.documents
           /\ results' = results @@ (DataTypes[cur] :> SuccessEntry(m.documents))
           /\ docs_of' = [docs_of EXCEPT ![DataTypes[cur]] = m.documents]
           /\ map_calls' = [map_calls EXCEPT ![DataTypes[cur]] = @ + m.calls]
    /\ cur' = cur + 1
    /\ s_pc' = "loop"
    /\ pipeline' = NoPipeline
    /\ UNCHANGED <<enabled, enhanced, unique_documents, duplicates_removed, raw_of,
                   fetch_calls, budget,
                   has_severities>>
    /\ UNCHANGED notSyncVars

\* An exception leaves _sync_data_type: except Exception as e, record 'error'.
TypeFails ==
    /\ s_pc = "running"
    /\ LET m == MapLoop(pipeline.data, DataTypes[cur])
       IN  /\ pipeline.raised \/ m.raised
           /\ results' = results @@
                 (DataTypes[cur] :> ErrorEntry(IF pipeline.raised THEN pipeline.msg ELSE m.msg))
           /\ map_calls' = [map_calls EXCEPT ![DataTypes[cur]] =
                               @ + (IF pipeline.raised THEN 0 ELSE m.calls)]
    /\ cur' = cur + 1
    /\ s_pc' = "loop"
    /\ pipeline' = NoPipeline
    /\ UNCHANGED <<enabled, enhanced, all_documents, unique_documents, duplicates_removed,
                   raw_of, docs_of, fetch_calls, budget,
                   has_severities>>
    /\ UNCHANGED notSyncVars

\* After the loop: deduplicate by id, build the summary, return.
DedupAndReturn ==
    /\ s_pc = "loop"
    /\ cur > Len(DataTypes)
    /\ LET d == Dedup(all_documents)
       IN  /\ unique_documents' = d.unique
           /\ duplicates_removed' = d.dups
           /\ results' = results @@ ("summary" :> SummaryEntry(d.unique, d.dups))
    /\ s_pc' = "returned"
    /\ UNCHANGED <<enabled, enhanced, cur, pipeline, all_documents, raw_of, docs_of,
                   fetch_calls, map_calls, budget,
                   has_severities>>
    /\ UNCHANGED notSyncVars

SyncNext ==
    \/ SkipType
    \/ StartType
    \/ TypeSucceeds
    \/ TypeFails
    \/ DedupAndReturn

\* One call of sync_all_data_types; no fetch_paginated_data frame is followed.
Init == SyncEntry /\ FetchIdle /\ EnrichIdle /\ AppIdle /\ ConvertIdle /\ RenderIdle /\ SectionIdle /\ OncallIdle

Spec == Init /\ [][SyncNext]_vars

-----------------------------------------------------------------------------
(* One entity type in detail: the fetcher's page loop, the rest of the     *)
(* fetcher, the conversion loop, the entry in results                      *)

\* The records the pages brought, as JSON values: record numbers become ids;
\* at most one record is not "ok"
ShapesOf(t, result) ==
    {[i \in 1 .. Len(result) |->
         IF i = bad THEN [id |-> IF k \in OtherKinds THEN 0 ELSE result[i], kind |-> k]
         ELSE [id |-> result[i], kind |-> "ok"]] :
       bad \in 0 .. Len(result),
       k \in {it.kind : it \in ItemsOf(t)} \ {"ok"}}

\* A run with one enabled type: the loop has skipped the types before it,
\* _sync_data_type has called its fetcher, which has entered
\* fetch_paginated_data; the source has at most MaxSourcePages pages.
TypeEntry ==
    /\ s_pc = "fetching"
    /\ cur \in 1 .. Len(DataTypes)
    /\ enabled = [t \in TypeSet |-> t = DataTypes[cur]]
    /\ enhanced \in BOOLEAN
    /\ pipeline = NoPipeline
    /\ results = [t \in {DataTypes[i] : i \in 1 .. (cur - 1)} |-> SkippedEntry]
    /\ all_documents = << >>
    /\ unique_documents = << >>
    /\ duplicates_removed = 0
    /\ raw_of = NoData
    /\ docs_of = NoData
    /\ fetch_calls = [NoCalls EXCEPT ![DataTypes[cur]] = 1]
    /\ map_calls = NoCalls
    /\ budget = 0
    /\ has_severities = FALSE
    /\ FetchEntry
    /\ emptyAt <= MaxSourcePages + 1

\* fetch_paginated_data has returned: the fetcher goes through the records
\* (its enrichment loop, if it has one) and returns them, or raises.
FetcherReturns ==
    /\ s_pc = "fetching"
    /\ f_pc = "done"
    /\ \E payload \in ShapesOf(DataTypes[cur], fetched_result) :
       \E sev \in SeverityAnswers(DataTypes[cur], enhanced, payload) :
          /\ pipeline' = Fetcher(DataTypes[cur], enhanced, sev, payload)
          /\ has_severities' = sev
          /\ raw_of' = [raw_of EXCEPT ![DataTypes[cur]] = payload]
    /\ s_pc' = "running"
    /\ UNCHANGED <<enabled, enhanced, cur, results, all_documents, unique_documents,
                   duplicates_removed, docs_of, fetch_calls, map_calls, budget>>
    /\ UNCHANGED notSyncVars

TypeNext ==
    \/ RequestFails
    \/ RequestEmpty
    \/ RequestItems
    \/ FetchReturns
    \/ FetcherReturns
    \/ TypeSucceeds
    \/ TypeFails

\* One enabled type, from the first page request to its entry in results.
TypeInit == TypeEntry /\ EnrichIdle /\ AppIdle /\ ConvertIdle /\ RenderIdle /\ SectionIdle /\ OncallIdle

TypeSpec == TypeInit /\ [][TypeNext]_vars

\* A whole run of sync_all_data_types: with the fetchers taken as one step
\* each, or with the one enabled type followed from its page requests.
OrderInit ==
    \/ SyncEntryWith(MaxRecords - 1) /\ FetchIdle /\ EnrichIdle /\ AppIdle /\ ConvertIdle /\ RenderIdle /\ SectionIdle /\ OncallIdle
    \/ TypeInit

OrderNext ==
    \/ SyncNext
    \/ RequestFails
    \/ RequestEmpty
    \/ RequestItems
    \/ FetchReturns
    \/ FetcherReturns

OrderSpec == OrderInit /\ [][OrderNext]_vars

-----------------------------------------------------------------------------
(* SyncCoordinator.__init__                                                *)

\* self.config.data_types.<type> for every key of data_type_configs
ConfigHas(t) == t \in ConfigFields

BootEntry ==
    /\ s_pc = "new"
    /\ enabled \in [TypeSet -> BOOLEAN]
    /\ \A t \in TypeSet \ ConfigFields : ~enabled[t]
    /\ enhanced \in BOOLEAN
    /\ cur = 1
    /\ pipeline = NoPipeline
    /\ results = << >>
    /\ all_documents = << >>
    /\ unique_documents = << >>
    /\ duplicates_removed = 0
    /\ raw_of = NoData
    /\ docs_of = NoData
    /\ fetch_calls = NoCalls
    /\ map_calls = NoCalls
    /\ budget \in 0 .. MaxRecords
    /\ has_severities = FALSE

\* The constructor builds data_type_configs; a missing attribute of
\* config.data_types raises AttributeError out of it.
Construct ==
    /\ s_pc = "new"
    /\ s_pc' = IF \A i \in 1 .. Len(DataTypes) : ConfigHas(DataTypes[i])
               THEN "loop" ELSE "crashed"
    /\ UNCHANGED <<enabled, enhanced, cur, pipeline, results, all_documents,
                   unique_documents, duplicates_removed, raw_of, docs_of,
                   fetch_calls, map_calls, budget,
                   has_severities>>
    /\ UNCHANGED notSyncVars

BootInit == BootEntry /\ FetchIdle /\ EnrichIdle /\ AppIdle /\ ConvertIdle /\ RenderIdle /\ SectionIdle /\ OncallIdle

BootSpec == BootInit /\ [][Construct]_vars

-----------------------------------------------------------------------------
EnrichInit == EnrichEntry /\ FetchIdle /\ SyncIdle /\ AppIdle /\ ConvertIdle /\ RenderIdle /\ SectionIdle /\ OncallIdle

EnrichSpec == EnrichInit /\ [][EnrichNext]_vars

-----------------------------------------------------------------------------
\* One run of the process.
AppInit == AppEntry /\ FetchIdle /\ SyncIdle /\ EnrichIdle /\ ConvertIdle /\ RenderIdle /\ SectionIdle /\ OncallIdle

AppSpec == AppInit /\ [][AppNext]_vars

-----------------------------------------------------------------------------
\* One record with attributes is converted to a document.
ConvertInit == ConvertEntry /\ FetchIdle /\ SyncIdle /\ EnrichIdle /\ AppIdle /\ RenderIdle /\ SectionIdle /\ OncallIdle

ConvertSpec == ConvertInit /\ [][ConvertNext]_vars

-----------------------------------------------------------------------------
\* One call of _add_oncall_data on an enriched schedule.
RenderInit ==
    RenderEntry /\ FetchIdle /\ SyncIdle /\ EnrichIdle /\ AppIdle /\ ConvertIdle /\ SectionIdle /\ OncallIdle

RenderSpec == RenderInit /\ [][RenderNext]_vars

-----------------------------------------------------------------------------
\* One call of _add_monitoring_rules_content.
SectionInit ==
    SectionEntry /\ FetchIdle /\ SyncIdle /\ EnrichIdle /\ AppIdle /\ ConvertIdle /\ RenderIdle /\ OncallIdle

SectionSpec == SectionInit /\ [][AddMonitoringRulesContent]_vars

-----------------------------------------------------------------------------
\* One call of fetch_paginated_data; no coordinator is running.
FetchInit == FetchEntry /\ SyncIdle /\ EnrichIdle /\ AppIdle /\ ConvertIdle /\ RenderIdle /\ SectionIdle /\ OncallIdle

FetchSpec == FetchInit /\ [][FetchNext]_vars

\* The loop is sequential code: a step that can be taken is taken.
FairFetchSpec == FetchSpec /\ WF_vars(FetchNext)

\* One call of fetch_paginated_data against a source that serves by offset.
OffsetInit == OffsetEntry /\ SyncIdle /\ EnrichIdle /\ AppIdle /\ ConvertIdle /\ RenderIdle /\ SectionIdle /\ OncallIdle

OffsetSpec == OffsetInit /\ [][OffsetNext]_vars

-----------------------------------------------------------------------------
\* The enhancement loop of one fetch_schedules call.
OncallInit == OncallEntry /\ FetchIdle /\ SyncIdle /\ EnrichIdle /\ AppIdle /\ ConvertIdle /\ RenderIdle /\ SectionIdle

OncallSpec == OncallInit /\ [][OncallNext]_vars

-----------------------------------------------------------------------------
\* Any one of the calls that issue source requests: fetch_paginated_data,
\* enrich_incidents_with_details, the enhancement loop of fetch_schedules.
LookupInit == FetchInit \/ EnrichInit \/ OncallInit

LookupNext == FetchNext \/ EnrichNext \/ OncallNext

LookupSpec == LookupInit /\ [][LookupNext]_vars

-----------------------------------------------------------------------------
(* Claims about fetch_paginated_data (FetchSpec, FairFetchSpec)            *)

\* The records of the pages served so far, in serving order.
ServedRecords == Range(1, served)

\* C5: if the request for page p fails, the call does not raise: it stops
\* paginating, issues no further page request and returns exactly the records
\* accumulated from pages 1..p-1; under a max_items of 1 or more these are
\* within max_items, so the cut removes none of them.
C5_PageFailureEndsPagination ==
    failedPage > 0 =>
        /\ f_pc \in {"break", "done"}
        /\ Len(requests) = failedPage
        /\ requests[Len(requests)].number = failedPage
        /\ all_items = ServedRecords
        /\ f_pc = "done" =>
              /\ fetched_result = ServedRecords
              /\ (max_items >= 1 => Len(fetched_result) <= max_items)

C5_Witness ==
    /\ f_pc = "done"
    /\ failedPage = 3
    /\ Len(fetched_result) >= 2

\* C6 as stated: for a source whose first empty page is page K (and whose
\* requests succeed), the call returns exactly the concatenation of pages
\* 1..K-1, whatever max_items is.
C6_Original_RegardlessOfMaxItems ==
    (f_pc = "done" /\ failedPage = 0) =>
        /\ page = emptyAt
        /\ fetched_result = ServedRecords

\* C6 amended: for a source whose first empty page is page K <= max_pages + 1
\* and whose requests succeed, the call returns the concatenation of pages
\* 1..K-1, cut to its first max_items records when max_items is 1 or more
\* (None and 0 cut nothing).
C6_ConcatenationCutToMaxItems ==
    (f_pc = "done" /\ failedPage = 0 /\ emptyAt <= max_pages + 1) =>
        IF max_items >= 1 /\ served >= max_items
        THEN fetched_result = Range(1, max_items)
        ELSE /\ page = emptyAt
             /\ fetched_result = ServedRecords

C6_Witness ==
    /\ f_pc = "done"
    /\ failedPage = 0
    /\ emptyAt = 4
    /\ max_items = 3
    /\ served = 4
    /\ Len(fetched_result) = 3

\* C7: for max_items = X and a source whose pages (all answered) yield more
\* than X records, the call returns a sequence of length exactly X.
C7_CapEnforced ==
    (f_pc = "done" /\ failedPage = 0 /\ max_items # None /\ served > max_items) =>
        Len(fetched_result) = max_items

\* C8: the call terminates for every source behaviour and never issues more
\* than 10 page requests.
C8_TerminatesWithinTenRequests ==
    /\ [](Len(requests) <= 10)
    /\ <>(f_pc = "done")

C8_Witness ==
    /\ f_pc = "done"
    /\ max_items = None
    /\ failedPage = 0
    /\ emptyAt > 11
    /\ Len(requests) = 10
    /\ Len(fetched_result) >= 10

-----------------------------------------------------------------------------
(* Claims about sync_all_data_types (Spec) and the constructor (BootSpec)  *)

IndexOf(t) == CHOOSE i \in 1 .. Len(DataTypes) : DataTypes[i] = t

Recorded(t) == t \in DOMAIN results

\* Record item makes the pipeline of type t raise: it is no JSON object
\* (item.get fails in the fetcher or in the mapper's handlers), or it is an
\* incident that the severity step of the enrichment cannot read.
RecordRaises(t, item) ==
    \/ ~IsObject(item)
    \/ /\ t = "incidents" /\ enhanced /\ has_severities
       /\ item.kind \in SeverityKinds

RaisingRecords(t) == {i \in 1 .. Len(raw_of[t]) : RecordRaises(t, raw_of[t][i])}

FirstRaising(t) ==
    raw_of[t][CHOOSE i \in RaisingRecords(t) : \A j \in RaisingRecords(t) : i <= j]

\* The pipeline of an enabled type raises exactly when the source served such
\* a record.
PipelineRaised(t) == enabled[t] /\ fetch_calls[t] > 0 /\ RaisingRecords(t) # {}

DocIds(docs) == {docs[i].id : i \in 1 .. Len(docs)}

\* C1: if the pipeline of one enabled type raises, that type's result is
\* 'error' with the error's description, every type after it is still
\* processed, and the documents collected from the other types are returned.
C1_TypeFailureIsIsolated ==
    s_pc = "returned" =>
        \A t \in TypeSet :
            PipelineRaised(t) =>
                /\ Recorded(t)
                /\ results[t] = [status |-> "error",
                                 error |-> AttributeErrorMsg(FirstRaising(t))]
                /\ \A u \in TypeSet :
                      IndexOf(u) > IndexOf(t) =>
                          /\ Recorded(u)
                          /\ enabled[u] => fetch_calls[u] = 1
                /\ \A u \in TypeSet \ {t} :
                      DocIds(docs_of[u]) \subseteq DocIds(unique_documents)

C1_Witness ==
    /\ s_pc = "returned"
    /\ PipelineRaised("alerts")
    /\ results["alerts"].status = "error"
    /\ results["schedules"].status = "success"
    /\ Len(docs_of["schedules"]) = 1
    /\ Len(unique_documents) = 1

\* The per-type document lists, concatenated in processing order.
ConcatDocs ==
    LET F[i \in 0 .. Len(DataTypes)] ==
          IF i = 0 THEN << >> ELSE F[i - 1] \o docs_of[DataTypes[i]]
    IN  F[Len(DataTypes)]

IsFirstOccurrence(docs, i) == \A j \in 1 .. (i - 1) : docs[j].id # docs[i].id

\* C2: the returned sequence has pairwise distinct ids; it is the concatenation
\* of the per-type lists with only the first occurrence of every id kept, in
\* first-seen order; duplicates_removed is the number dropped and
\* total_documents the number kept.
C2_DedupKeepsFirstOccurrences ==
    s_pc = "returned" =>
        LET all == ConcatDocs
            firsts == {i \in 1 .. Len(all) : IsFirstOccurrence(all, i)}
        IN  /\ \A i, j \in 1 .. Len(unique_documents) :
                  i # j => unique_documents[i].id # unique_documents[j].id
            /\ Len(unique_documents) = Cardinality(firsts)
            /\ \A k \in 1 .. Len(unique_documents) :
                  \E i \in firsts :
                      /\ unique_documents[k] = all[i]
                      /\ Cardinality({j \in firsts : j < i}) = k - 1
            /\ results["summary"].duplicates_removed = Len(all) - Cardinality(firsts)
            /\ results["summary"].total_documents = Cardinality(firsts)

C2_Witness ==
    /\ s_pc = "returned"
    /\ Len(all_documents) = 2
    /\ all_documents[1].id = all_documents[2].id
    /\ all_documents[1].object_type # all_documents[2].object_type
    /\ unique_documents = <<all_documents[1]>>
    /\ results["summary"].duplicates_removed = 1

\* C3: a type with enabled = false gets {status: 'skipped', reason:
\* 'disabled'}, no fetch or mapping call is issued for it, and it contributes
\* no document.
C3_DisabledTypeIsSkipped ==
    \A t \in TypeSet :
        ~enabled[t] =>
            /\ fetch_calls[t] = 0
            /\ map_calls[t] = 0
            /\ docs_of[t] = << >>
            /\ \A i \in 1 .. Len(all_documents) :
                  all_documents[i].object_type # ObjectType(t)
            /\ \A i \in 1 .. Len(unique_documents) :
                  unique_documents[i].object_type # ObjectType(t)
            /\ Recorded(t) => results[t] = [status |-> "skipped", reason |-> "disabled"]
            /\ (s_pc = "returned" \/ cur > IndexOf(t)) => Recorded(t)

C3_Witness ==
    /\ s_pc = "returned"
    /\ ~enabled["incidents"]
    /\ results["incidents"].status = "skipped"
    /\ enabled["alerts"]
    /\ Len(unique_documents) = 2

RunOver == s_pc \in {"returned", "crashed"}

\* C4: in every run each of the five entity types ends in a terminal status,
\* and the report holds exactly one entry per type: 'success' with a document
\* count, 'skipped' with a reason, or 'error' with a description.
C4_EveryTypeReachesTerminalStatus ==
    RunOver =>
        \A t \in TypeSet :
            /\ Recorded(t)
            /\ \/ results[t].status = "success" /\ results[t].documents_created >= 0
               \/ results[t].status = "skipped" /\ results[t].reason = "disabled"
               \/ results[t].status = "error" /\ results[t].error # ""

DistinctIds(raw) == \A i, j \in 1 .. Len(raw) : i # j => raw[i].id # raw[j].id

\* the records with no attributes: the key is missing, or holds {} or null
WithoutAttributes(raw) ==
    {i \in 1 .. Len(raw) : raw[i].kind \in {"noattrs", "nullattrs"}}

Mapped(t) == Recorded(t) /\ results[t].status = "success"

\* C9: mapping N raw records of which M have no attributes yields exactly N-M
\* documents, none carrying the id of one of the M records.
C9_ExactlyNMinusMDocuments ==
    \A t \in TypeSet :
        (Mapped(t) /\ DistinctIds(raw_of[t])) =>
            /\ Len(docs_of[t]) = Len(raw_of[t]) - Cardinality(WithoutAttributes(raw_of[t]))
            /\ \A i \in WithoutAttributes(raw_of[t]) : raw_of[t][i].id \notin DocIds(docs_of[t])

\* The fetcher of type t returned its records to _sync_data_type.
FetcherReturned(t) ==
    /\ enabled[t]
    /\ fetch_calls[t] > 0
    /\ \A i \in 1 .. Len(raw_of[t]) :
          ~RaisesInFetcher(t, enhanced, has_severities, raw_of[t][i])

\* the records the mapper of type t turns into a document
Converts(item, t) ==
    item.kind = "ok" \/ (item.kind = "nullsev" /\ t # "incidents")

\* C10: a record whose mapping fails (mapper raises or returns absent) is
\* excluded, every other record of the type is still mapped, and the type ends
\* 'success' with documents_created counting the records that mapped.
C10_RecordFailureDoesNotFailType ==
    \A t \in TypeSet :
        (Recorded(t) /\ FetcherReturned(t)) =>
            /\ results[t].status = "success"
            /\ results[t].documents_created =
                  Cardinality({i \in 1 .. Len(raw_of[t]) : Converts(raw_of[t][i], t)})
            /\ map_calls[t] = Len(raw_of[t])

\* C20: page numbers start at 1 and increase by 1, and every page request asks
\* for items_per_page records, shrunk to exactly max_items minus the number of
\* records already accumulated when max_items is given and that is smaller; no
\* request asks for 0 records or fewer.
C20_PageRequestSizes ==
    [][requests' # requests =>
          LET r == requests'[Len(requests')]
              remaining_slots == max_items - Len(all_items)
          IN  /\ Len(requests') = Len(requests) + 1
              /\ r.number = Len(requests) + 1
              /\ r.size <= items_per_page
              /\ r.size = IF max_items # None /\ remaining_slots < items_per_page
                          THEN remaining_slots ELSE items_per_page
              /\ r.size >= 1]_vars

\* One alert document with an empty monitoring section per readable record.
ReadableAlertDocs(raw) ==
    LET F[i \in 0 .. Len(raw)] ==
          IF i = 0 THEN << >>
          ELSE IF Converts(raw[i], "alerts")
               THEN Append(F[i - 1], [id |-> raw[i].id, object_type |-> "Alert",
                                      monitoring |-> 0])
               ELSE F[i - 1]
    IN  F[Len(raw)]

\* The documents of the records that carry attributes, each with an empty
\* monitoring context section.
AlertDocsWithAttributes(raw) ==
    LET F[i \in 0 .. Len(raw)] ==
          IF i = 0 THEN << >>
          ELSE IF raw[i].kind \in {"ok", "malformed", "nullsev"}
               THEN Append(F[i - 1], [id |-> raw[i].id, object_type |-> "Alert",
                                      monitoring |-> 0])
               ELSE F[i - 1]
    IN  F[Len(raw)]

\* The enrichment of the fetched alerts failed for every one of them: the try
\* block of _enhance_alerts_with_monitoring_data raised before any alert had
\* its context attached.
EnrichmentFailedForAll(raw) ==
    /\ raw # << >>
    /\ EnhanceAlerts(raw).failed
    /\ EnhanceAlerts(raw).with_context = {}

\* C12: if alert enrichment fails for every fetched alert, the alerts type
\* still ends 'success', not 'error': every fetched alert that has attributes
\* yields a document whose monitoring context section is empty, and
\* documents_created is the number of those alerts.
C12_AlertsSurviveFailedEnrichment ==
    (Recorded("alerts") /\ enabled["alerts"]
        /\ EnrichmentFailedForAll(raw_of["alerts"])) =>
        /\ results["alerts"].status = "success"
        /\ docs_of["alerts"] = AlertDocsWithAttributes(raw_of["alerts"])
        /\ results["alerts"].documents_created =
              Len(AlertDocsWithAttributes(raw_of["alerts"]))

\* The runs in which the try block does not raise (every fetched element is
\* an object): no supplementary endpoint is called, every alert carries a
\* context of four empty lists, the type ends 'success' and every alert the
\* mapper converts yields a document without a monitoring section.
C12_ReadableAlertsSurvive ==
    (Recorded("alerts") /\ enabled["alerts"] /\ ~EnhanceAlerts(raw_of["alerts"]).failed) =>
        /\ results["alerts"].status = "success"
        /\ docs_of["alerts"] = ReadableAlertDocs(raw_of["alerts"])

-----------------------------------------------------------------------------
(* Claims about the process entry point (AppSpec)                          *)

CallsOf(name) == {i \in 1 .. Len(a_calls) : a_calls[i].op = name}

\* C13: if the 'since' argument is given and is not a valid ISO-8601
\* timestamp, the process exits with a non-zero code, and no call to the
\* source API or the index API is made on that run.
C13_InvalidSinceAbortsBeforeAnyCall ==
    (ProgramRun /\ since \in {"empty", "invalid"}) =>
        /\ a_calls = << >>
        /\ a_pc = "exited" => a_exit # 0

\* the process was started with an argument that is no timestamp and has
\* exited with code 1, no call made
C13_Witness ==
    /\ ProgramRun
    /\ since = "invalid"
    /\ a_pc = "exited"
    /\ a_exit = 1
    /\ a_calls = << >>

\* C14 as stated: in every run the datasource declaration is called exactly
\* once, before any submission, and no submission happens in a run whose
\* declaration failed.
C14_Original_DeclaredInEveryRun ==
    a_pc = "exited" =>
        /\ Cardinality(CallsOf("declare")) = 1
        /\ \A i \in CallsOf("index") : \E j \in CallsOf("declare") : j < i
        /\ "declare" \in a_errors => CallsOf("index") = {}

\* C14 amended: the declaration is called at most once in a run, and exactly
\* once in every run that obtained an index client; it precedes every fetch
\* and every submission; a run whose declaration failed fetches and submits
\* nothing and exits with a non-zero code.
C14_DeclaredOnceBeforeSubmission ==
    /\ Cardinality(CallsOf("declare")) <= 1
    /\ (a_pc = "exited" /\ CallsOf("client") # {} /\ "client" \notin a_errors) =>
          Cardinality(CallsOf("declare")) = 1
    /\ \A i \in CallsOf("index") \cup CallsOf("fetch") :
          \E j \in CallsOf("declare") : j < i
    /\ "declare" \in a_errors =>
          /\ CallsOf("index") = {}
          /\ CallsOf("fetch") = {}
          /\ a_pc = "exited"
          /\ a_exit # 0

C14_Witness ==
    /\ a_pc = "exited"
    /\ a_exit = 0
    /\ Cardinality(CallsOf("declare")) = 1
    /\ Cardinality(CallsOf("index")) = 1
    /\ Cardinality(CallsOf("fetch")) = 2

\* C15: if the bulk submission fails, the run aborts with a non-zero exit
\* code and never reports successful completion.
C15_SubmissionFailureAborts ==
    "index" \in a_errors =>
        /\ a_pc = "exited"
        /\ a_exit # 0
        /\ ~a_finished

C15_Witness ==
    /\ "index" \in a_errors
    /\ CallsOf("index") # {}
    /\ docs_to_index >= 1
    /\ a_exit = 1

\* C16: the process exits with a non-zero code when a source-API HTTP error
\* occurs while fetching (as on a configuration error, an index-submission
\* error or an unexpected exception); exit code 0 means the run completed
\* without any of them.
C16_SourceHttpErrorExitsNonZero ==
    a_pc = "exited" =>
        /\ "source_http" \in a_errors => a_exit # 0
        /\ a_errors \cap {"configuration", "index", "unexpected"} # {} => a_exit # 0
        /\ a_exit = 0 => a_errors = {}

-----------------------------------------------------------------------------
(* Claims about incident enrichment (EnrichSpec)                           *)

Piece(record, piece) == IF piece = "events" THEN record.events ELSE record.action_items

\* C11: a failing events or action-items lookup for one incident yields an
\* empty list for that piece only; the other piece of that incident and the
\* enrichment of every other incident proceed, no exception leaves
\* enrich_incidents_with_details, and the enriched list has the length, order
\* and record ids of the fetched list.
C11_LookupFailureIsIsolated ==
    e_failed # {} =>
        /\ e_pc # "raised"
        /\ \A c \in e_failed :
              c[1] <= Len(enriched_incidents) =>
                  Piece(enriched_incidents[c[1]], c[2]) = "empty"
        /\ e_pc = "done" =>
              /\ Len(enriched_incidents) = Len(e_incidents)
              /\ \A i \in 1 .. Len(e_incidents) :
                    /\ enriched_incidents[i].id = e_incidents[i].id
                    /\ e_incidents[i].id # 0 => LookupsOf(i) \subseteq e_calls

-----------------------------------------------------------------------------
(* Claims about the conversion of one record (ConvertSpec)                 *)

Converted == c_pc = "returned" /\ c_doc.produced

\* https://rootly.com/account/<type-plural>/<id>, the plural being the name of
\* the entity type
ExpectedDefaultUrl(record) ==
    [kind |-> "default", plural |-> record.type, id |-> record.id]

\* C17: every document produced from a record carries a view_url: the url of
\* the record when that is a non-blank string, otherwise the default
\* https://rootly.com/account/<type-plural>/<id>.
C17_ViewUrlSourceOrDefault ==
    Converted =>
        c_doc.view_url = IF c_record.url = "given" THEN SourceUrl
                         ELSE ExpectedDefaultUrl(c_record)

\* The same for the documents of the mappers alone: it holds of them.
C17_MapperViewUrl ==
    (Converted /\ c_path = "mapper") =>
        c_doc.view_url = IF c_record.url = "given" THEN SourceUrl
                         ELSE ExpectedDefaultUrl(c_record)

\* a value isoparse gives no datetime for: a string that is no ISO-8601 date,
\* or a value that is not a string
Unparsable(v) == v.shape \in {"unparsable", "falsy", "nonstring", "object"}

\* C18: for created_at and updated_at each, a value that cannot be parsed
\* leaves that field out of the document; the other field is set when its
\* value is valid, the document is produced (unless view_url handling
\* failed), and the mapper returns.
C18_UnparsableTimestampOmitted ==
    c_pc = "returned" =>
        \A f \in TimestampFields :
            Unparsable(c_record[f]) =>
                /\ ~ViewUrlRaises(c_path, c_record.url) => c_doc.produced
                /\ f \notin DOMAIN c_doc.timestamps
                /\ \A g \in TimestampFields \ {f} :
                      (c_doc.produced /\ c_record[g].shape = "valid") =>
                          g \in DOMAIN c_doc.timestamps

\* The same for the runs in which every exception of isoparse is one that
\* _extract_timestamps catches (strings; any value before Python 3.12): it
\* holds of them.
C18_OmittedWhenCaught ==
    (\A g \in TimestampFields : ~FieldRaises(c_record[g], c_python)) =>
        C18_UnparsableTimestampOmitted

-----------------------------------------------------------------------------
(* Claims about the shift lines of a schedule document (RenderSpec)        *)

\* first+last name: the names the user has, joined
FirstPlusLast(entry) ==
    CASE entry.first_name = "text" /\ entry.last_name = "text" -> "Janet Dow"
      [] entry.first_name = "text" /\ entry.last_name # "text" -> "Janet"
      [] entry.first_name # "text" /\ entry.last_name = "text" -> "Dow"
      [] OTHER -> ""

\* name, full_name, first+last name, email local part, 'User <id>': the first
\* of them the user has
FallbackDisplay(entry, id) ==
    IF entry.name = "text" THEN "Jane D."
    ELSE IF entry.full_name = "text" THEN "Jane Doe"
    ELSE IF FirstPlusLast(entry) # "" THEN FirstPlusLast(entry)
    ELSE IF entry.email = "address" THEN "jane"
    ELSE UserLabel(id)

\* the line rendered for the shift at position i, if any
LinesOfShift(i) == {j \in DOMAIN shift_lines : shift_lines[j].shift = i}

ShiftsShown == 1 .. Min(ShiftLimit, Len(all_shifts))

\* C19: each of the first 10 shifts (that has attributes and a user) is
\* rendered on one line with the display name of its user, resolved through
\* user_lookup with the fallback order name, full_name, first+last name, email
\* local part, 'User <id>'; no later shift is rendered.
C19_ShiftUserDisplayNames ==
    r_pc \in {"returned", "raised"} =>
        /\ r_pc = "returned"
        /\ \A i \in ShiftsShown :
              (all_shifts[i].attributes /\ all_shifts[i].user # "none") =>
                  /\ Cardinality(LinesOfShift(i)) = 1
                  /\ \A j \in LinesOfShift(i) :
                        shift_lines[j].display =
                            IF all_shifts[i].user \in DOMAIN user_lookup
                            THEN FallbackDisplay(user_lookup[all_shifts[i].user],
                                                 all_shifts[i].user)
                            ELSE UserLabel(all_shifts[i].user)
        /\ \A j \in DOMAIN shift_lines : shift_lines[j].shift <= ShiftLimit

\* user records whose attributes are an object without full_name_with_team
\* and without a null first_name, last_name or email
PlainUsers ==
    \A u \in DOMAIN user_lookup :
        /\ user_lookup[u].attributes = "object"
        /\ user_lookup[u].full_name_with_team = "absent"
        /\ "null" \notin {user_lookup[u].first_name, user_lookup[u].last_name,
                          user_lookup[u].email}

\* The same for such user records: it holds of them.
C19_PlainUsersDisplayNames ==
    PlainUsers => C19_ShiftUserDisplayNames

\* The schedule of scenario B: two shifts of u1, whose record has full_name
\* and no name; both lines show the full name.
C19_JaneDoeOnBothLines ==
    /\ r_pc = "returned"
    /\ Len(all_shifts) = 2
    /\ \A i \in 1 .. 2 : all_shifts[i] = [attributes |-> TRUE, user |-> "u1"]
    /\ "u1" \in DOMAIN user_lookup
    /\ user_lookup["u1"].name = "absent"
    /\ user_lookup["u1"].full_name = "text"
    /\ shift_lines = <<[shift |-> 1, display |-> "Jane Doe"],
                       [shift |-> 2, display |-> "Jane Doe"]>>

-----------------------------------------------------------------------------
(* Further claims about fetch_paginated_data (FetchSpec)                   *)

LastRequest == requests[Len(requests)]

\* C29: a max_items of 0 is treated like an absent max_items: no request is
\* shrunk below items_per_page, nothing stops the loop but an empty page, a
\* page failure or the 10-page limit, and every record served is returned.
C29_ZeroMaxItemsIsNoCap ==
    max_items = 0 =>
        /\ \A i \in DOMAIN requests : requests[i].size = items_per_page
        /\ f_pc = "done" =>
              /\ fetched_result = ServedRecords
              /\ \/ failedPage # 0
                 \/ Len(requests) > 0 /\ LastRequest.number = emptyAt
                 \/ Len(requests) = 10

\* ten full pages were returned under max_items = 0
C29_Witness ==
    /\ max_items = 0
    /\ f_pc = "done"
    /\ Len(requests) = 10
    /\ Len(fetched_result) = 10 * items_per_page

-----------------------------------------------------------------------------
(* Claims about the monitoring sections of an alert document (SectionSpec) *)

\* C30: each of the four monitoring-context sections of an alert body lists at
\* most 3 entries, whatever the number of entries attached to the alert.
C30_SectionsListAtMostThree ==
    m_pc = "returned" => \A s \in Sections : section_lines[s] <= 3

\* The same for the three sections other than urgencies: it holds of them.
C30_SlicedSectionsAtMostThree ==
    m_pc = "returned" => \A s \in Sections \ {"urgencies"} : section_lines[s] <= 3

-----------------------------------------------------------------------------
(* Further claims about the process entry point (AppSpec)                  *)

\* The run ended with nothing to submit: the fetch loop gave no incident, or
\* the conversion loop gave no document, and no step raised.
NothingToSync ==
    /\ a_pc = "exited"
    /\ a_errors \subseteq {"source_http"}
    /\ docs_to_index = 0

\* C26: when no record is fetched, or no fetched record converts to a
\* document, the process exits with code 0 and the document submission of the
\* index API is never called in that run.
C26_NothingToSyncExitsZero ==
    NothingToSync => a_exit = 0 /\ CallsOf("index") = {}

\* incidents were fetched and none of them converted
C26_Witness ==
    /\ NothingToSync
    /\ all_incidents_data > 0
    /\ processing.max_incidents > 0
    /\ CallsOf("fetch") # {}
    /\ a_exit = 0

-----------------------------------------------------------------------------
(* Further claims about sync_all_data_types (Spec)                         *)

SucceededTypes == {t \in TypeSet : Recorded(t) /\ results[t].status = "success"}

\* sum of documents_created over the entity types with status 'success'
CreatedBySucceededTypes ==
    LET F[i \in 0 .. Len(DataTypes)] ==
          IF i = 0 THEN 0
          ELSE F[i - 1] + (IF DataTypes[i] \in SucceededTypes
                           THEN results[DataTypes[i]].documents_created ELSE 0)
    IN  F[Len(DataTypes)]

\* C27: after a run, the documents_created of the types with status 'success'
\* add up to summary.total_documents + summary.duplicates_removed, and every
\* document returned is of a type with status 'success': a skipped type and a
\* type that ended 'error' contribute none.
C27_ReportAccountsForDocuments ==
    s_pc = "returned" =>
        /\ CreatedBySucceededTypes =
              results["summary"].total_documents + results["summary"].duplicates_removed
        /\ \A i \in DOMAIN unique_documents :
              \E t \in SucceededTypes : unique_documents[i].object_type = ObjectType(t)

\* two types succeeded with one document each, of the same id
C27_Witness ==
    /\ s_pc = "returned"
    /\ Cardinality(SucceededTypes) >= 2
    /\ CreatedBySucceededTypes = 2
    /\ results["summary"].total_documents = 1
    /\ results["summary"].duplicates_removed = 1


-----------------------------------------------------------------------------
(* Claims about the order and the number of the enrichment requests        *)

SeverityCalls == {i \in 1 .. Len(e_log) : e_log[i][2] = "severities"}

\* what enrich_incidents_with_details hands back; nothing when it raised
ReturnedIncidents == IF e_pc = "done" THEN enriched_incidents ELSE << >>

EnrichmentEnded == e_pc \in {"done", "raised"} /\ e_incidents # << >>

\* the incidents that have an id and whose severity id the lookup contains
InLookup(i) ==
    /\ e_incidents[i].id # 0
    /\ e_incidents[i].sev = "ref"
    /\ 1 \in severity_lookup

\* C24: in a run that enriches incidents the severity-definitions lookup is
\* issued exactly once, ahead of every per-incident lookup, whatever the
\* number of incidents; every incident whose severity id the lookup contains
\* is returned with the severity details; a failed lookup is empty and the
\* per-incident enrichment still runs to its end.
C24_SeverityLookupOnceAndApplied ==
    EnrichmentEnded =>
        /\ Cardinality(SeverityCalls) = 1
        /\ e_log[1] = <<0, "severities">>
        /\ \A i \in 1 .. Len(e_incidents) :
              InLookup(i) =>
                  /\ i <= Len(ReturnedIncidents)
                  /\ ReturnedIncidents[i].severity_details
        /\ severity_lookup = {} =>
              /\ e_pc = "done"
              /\ Len(enriched_incidents) = Len(e_incidents)
              /\ \A i \in 1 .. Len(e_incidents) :
                    e_incidents[i].id # 0 => LookupsOf(i) \subseteq e_calls

\* the same, for the runs in which the severity step raises for no incident
C24_SeverityLookupWhenNoneRaises ==
    (EnrichmentEnded /\ e_pc = "done") =>
        /\ Cardinality(SeverityCalls) = 1
        /\ e_log[1] = <<0, "severities">>
        /\ \A i \in 1 .. Len(e_incidents) :
              InLookup(i) => enriched_incidents[i].severity_details
        /\ severity_lookup = {} =>
              /\ Len(enriched_incidents) = Len(e_incidents)
              /\ \A i \in 1 .. Len(e_incidents) :
                    e_incidents[i].id # 0 => LookupsOf(i) \subseteq e_calls


-----------------------------------------------------------------------------
(* Claims about fetch_paginated_data against an offset source (OffsetSpec) *)

\* C21: against a source that serves page p of size s as the records at
\* offsets (p-1)*s .. p*s-1, a call with max_items = X returns the first
\* min(X, total) records: none twice, none skipped.
C21_OffsetSourceFirstRecords ==
    (f_pc = "done" /\ Truthy(max_items)) =>
        fetched_result = Range(1, Min(max_items, total))

\* the same for the calls whose max_items is a multiple of items_per_page
C21_OffsetSourceWholePages ==
    (f_pc = "done" /\ Truthy(max_items) /\ max_items % items_per_page = 0) =>
        fetched_result = Range(1, Min(max_items, total))


-----------------------------------------------------------------------------
(* Claims about the enhancement of the schedules (OncallSpec)              *)

\* positions in the log of the requests to an endpoint for schedule i
LogPositions(i, endpoint) == {k \in 1 .. Len(o_log) : o_log[k] = <<i, endpoint>>}

\* C25: per schedule at most one users call, issued after the shifts and the
\* override-shifts fetches, exactly one when they reference a user id and
\* none when they reference none; the lookup holds only requested ids: those
\* of them the users call served, so none when the call failed; and the loop
\* goes on to the end of the schedules.
C25_OneBatchedUsersCall ==
    /\ \A i \in 1 .. Len(o_out) :
          /\ Cardinality(LogPositions(i, "users")) <= 1
          /\ \A k \in LogPositions(i, "users") :
                /\ \E a \in LogPositions(i, "shifts") : a < k
                /\ \E b \in LogPositions(i, "override_shifts") : b < k
          /\ o_out[i].referenced = {} => LogPositions(i, "users") = {}
          /\ (o_out[i].referenced # {} /\ ~o_out[i].raised) =>
                Cardinality(LogPositions(i, "users")) = 1
          /\ o_out[i].user_lookup \subseteq o_out[i].referenced
          /\ (o_out[i].id # 0 /\ ~o_out[i].raised) =>
                /\ o_out[i].has_lookup
                /\ o_out[i].user_lookup = o_out[i].referenced \cap o_out[i].served
    /\ o_pc = "done" => Len(o_out) = Len(o_schedules)

\* a failed users call for the first schedule, a partial lookup for the second
C25_Witness ==
    /\ o_pc = "done"
    /\ Len(o_out) = 2
    /\ o_out[1].referenced # {} /\ ~o_out[1].users_ok /\ LogPositions(1, "users") # {}
    /\ o_out[1].user_lookup = {}
    /\ o_out[2].referenced = {"u1", "u2"}
    /\ o_out[2].user_lookup = {"u2"}


-----------------------------------------------------------------------------
(* Claims about one entity type followed from its page requests (TypeSpec) *)

\* the report entry of a type that has no records
NoRecordsEntry == [status |-> "success", documents_created |-> 0]

\* C28: failed source requests never give a type the status 'error': an
\* 'error' entry needs a record the pipeline cannot read (one that is no JSON
\* object, or an incident with a null under the severity step, which runs
\* only when the /severities request succeeded); a type whose page request
\* failed and whose records are all readable ends 'success'; and a type
\* whose only request failed gets the entry of a type without records.
C28_RequestFailureIsNotAnError ==
    \A t \in {u \in DOMAIN results : enabled[u]} :
        /\ results[t].status = "error" => RaisingRecords(t) # {}
        /\ (failedPage # 0 /\ RaisingRecords(t) = {}) => results[t].status = "success"
        /\ (failedPage = 1 \/ emptyAt = 1) => results[t] = NoRecordsEntry

\* the first page request failed and the type's entry is written
C28_Witness ==
    /\ failedPage = 1
    /\ Len(requests) = 1
    /\ \E t \in DOMAIN results : enabled[t]


-----------------------------------------------------------------------------
(* Claims about the requests of all three calls (LookupSpec)               *)

NoRepeat(log) == \A i, j \in 1 .. Len(log) : log[i] = log[j] => i = j

\* C22: no request is issued again: the page numbers of one
\* fetch_paginated_data call are all different and a failed page is the last
\* one requested; every lookup of the incident enrichment (severities, and
\* per incident events and action items) and of the schedule enhancement (per
\* schedule rotations, shifts, override shifts, users) occurs once in the log
\* of its run, the failed ones included.
C22_NoCallIsRetried ==
    /\ NoRepeat([i \in 1 .. Len(requests) |-> requests[i].number])
    /\ failedPage # 0 =>
          /\ requests[Len(requests)].number = failedPage
          /\ Len(requests) = failedPage
    /\ NoRepeat(e_log)
    /\ \A c \in e_failed : Cardinality({k \in 1 .. Len(e_log) : e_log[k] = c}) = 1
    /\ NoRepeat(o_log)
    /\ \A i \in 1 .. Len(o_out) :
          (o_out[i].referenced # {} /\ ~o_out[i].raised /\ ~o_out[i].users_ok) =>
              Cardinality(LogPositions(i, "users")) = 1

\* two schedules whose users call failed: eight requests, none repeated
C22_Witness ==
    /\ o_pc = "done"
    /\ Len(o_out) = 2
    /\ \A i \in 1 .. 2 : o_out[i].referenced # {} /\ ~o_out[i].raised /\ ~o_out[i].users_ok
    /\ Len(o_log) = 8


-----------------------------------------------------------------------------
(* Claims about the order of a run (OrderSpec)                             *)

FixedOrder == <<"incidents", "alerts", "schedules", "escalation_policies",
                "retrospectives">>

\* the type the loop is at, while it is at one
InProgress == s_pc \in {"fetching", "running"}

\* C23: the types get their entries in the fixed order, one at a time: the
\* types before the loop position have an entry, the others have none and
\* no fetcher or mapper call; while the pages of a type are being requested
\* its fetcher has returned nothing and no mapper has been called for it; the
\* fetcher's pass over the records happens with the page loop ended and
\* before the first mapper call; the deduplication and the summary come
\* after the entry of the last type.
C23_StrictlySequential ==
    /\ DOMAIN results \ {"summary"} = {FixedOrder[i] : i \in 1 .. (cur - 1)}
    /\ \A i \in 1 .. Len(FixedOrder) :
          /\ fetch_calls[FixedOrder[i]] <= 1
          /\ i > cur => fetch_calls[FixedOrder[i]] = 0 /\ map_calls[FixedOrder[i]] = 0
          /\ (i = cur /\ ~InProgress) =>
                fetch_calls[FixedOrder[i]] = 0 /\ map_calls[FixedOrder[i]] = 0
          /\ map_calls[FixedOrder[i]] > 0 => i < cur /\ fetch_calls[FixedOrder[i]] = 1
    /\ f_pc \in {"loop", "break"} =>
          /\ s_pc = "fetching"
          /\ pipeline = NoPipeline
          /\ raw_of[FixedOrder[cur]] = << >>
    /\ s_pc = "running" =>
          /\ f_pc \in {"idle", "done"}
          /\ map_calls[FixedOrder[cur]] = 0
    /\ (cur <= Len(FixedOrder) \/ s_pc # "returned") =>
          /\ "summary" \notin DOMAIN results
          /\ unique_documents = << >>
          /\ duplicates_removed = 0
    /\ s_pc = "returned" => cur = Len(FixedOrder) + 1

\* a run whose enabled type took two page requests, then the mapper calls,
\* then the deduplication
C23_Witness ==
    /\ s_pc = "returned"
    /\ Len(requests) >= 2
    /\ \E t \in TypeSet : map_calls[t] > 0 /\ results[t].status = "success"
    /\ unique_documents # << >>

=============================================================================
